---- MODULE Spec2Model ----
(***************************************************************************)
(* Verification model of the competitor analyzers:                         *)
(*   - instagram_competitor_analyzer.py : CompetitorAnalyzer               *)
(*       (post classification, the per-account scan, the account loop,     *)
(*        the ranking of reels and posts)                                  *)
(*   - youtube_podcast_analyzer.py : YouTubePodcastAnalyzer                *)
(*       (channel discovery, transcript acquisition, summarization)        *)
(*                                                                         *)
(* Text values are sequences of one-character strings, so that split,      *)
(* join, strip, len and substring tests are computed, not assumed.         *)
(* Python's None is written None (-1) where the value is otherwise a       *)
(* natural number, and <<>> (versus <<v>>) where it is a record.           *)
(***************************************************************************)
EXTENDS Integers, Sequences, FiniteSets, TLC

VARIABLES
  \* ---- CompetitorAnalyzer.analyze_competitors ----
  igpc,                 \* "loop" while accounts remain, "ranked" after the return
  acct_i,               \* number of accounts of competitor_accounts already processed
  all_posts,            \* all_posts
  successful_accounts,  \* successful_accounts
  failed_accounts,      \* failed_accounts
  sleeps,               \* the time.sleep calls made so far, in order
  lastFeed,             \* what the upstream iterator of the last fetched account held
  lastScan,             \* what fetch_posts_from_account did on it
  scanLog,              \* per processed account: the exception its fetch caught
  results,              \* the returned dict, <<>> before the return
  \* ---- classification of one post ----
  cpost,                \* the raw post handed to the classifier
  citem,                \* <<>> or <<post_data>>
  \* ---- one call of summarize_transcript ----
  sm_transcript,        \* transcript
  sm_settings,          \* self.settings["summarization"] and the provider libraries
  sm_outcomes,          \* what the provider does on each attempt
  sm_result,            \* <<>> or <<what the call returned or raised>>
  \* ---- YouTubePodcastAnalyzer.fetch_podcasts_from_channel ----
  ytpc,                 \* "start", "transcribe", "summarize", "returned"
  yt_settings,          \* self.settings and the imported libraries
  listing,              \* what the flat extraction of the channel page delivers
  discovery,            \* <<>> or <<matching_videos, entries examined and resolved>>
  vid_k,                \* number of matching videos already processed
  cur_transcript,       \* <<>> or <<the transcript waiting to be summarized>>
  podcasts,             \* podcasts
  yt_log,               \* the calls made so far, in order
  lastTranscribe,       \* <<>> or <<the last transcribe_video call and its result>>
  \* ---- YouTubePodcastAnalyzer.analyze_competitors ----
  chpc,                 \* "loop" while channels remain, "returned" after the return
  ch_i,                 \* number of channels of competitor_channels already processed
  all_podcasts,         \* all_podcasts
  fetched_channels,     \* the channel names handed to fetch_podcasts_from_channel, in order
  yt_results,           \* the returned dict, <<>> before the return
  \* ---- one call of parse_vtt_subtitle ----
  vtt_doc,              \* <<>> or <<the cues and blocks the subtitle file was written from>>
  vtt_file,             \* <<>> or <<the subtitle file>>
  vtt_text,             \* <<>> or <<what the call returned>>
  \* ---- app.py, analyze ----
  stats,                \* <<>> or <<the stats dict of the response>>
  \* ---- one call of extract_key_topics ----
  tp_transcript,        \* <<>> or <<the transcript>>
  tp_topics             \* <<>> or <<the list returned>>

igVars == <<igpc, acct_i, all_posts, successful_accounts, failed_accounts,
            sleeps, lastFeed, lastScan, scanLog, results>>
clVars == <<cpost, citem>>
vttVars == <<vtt_doc, vtt_file, vtt_text>>
apiVars == <<stats>>
tpVars == <<tp_transcript, tp_topics>>
chVars == <<chpc, ch_i, all_podcasts, fetched_channels, yt_results>>
ytVars == <<ytpc, yt_settings, listing, discovery, vid_k, cur_transcript, podcasts,
            yt_log, lastTranscribe>>
smVars == <<sm_transcript, sm_settings, sm_outcomes, sm_result>>

None == -1
NoAttr == -2

\* ------------------------------------------------------------------------
\* Bounds of the model
\* ------------------------------------------------------------------------
Now == 20
NumAccounts == 2
LongRun == 12
ShortRun == 3
FloodExtra == 5

\* ------------------------------------------------------------------------
\* Program constants
\* ------------------------------------------------------------------------
WindowDays == 7
max_posts_to_check == 50
OldStreakLimit == 10
ShortFormSeconds == 90
TopN == 10
DelayBefore == 2
DelayAfter == 1

\* get_week_range
end_date == Now
start_date == end_date - WindowDays

\* ------------------------------------------------------------------------
\* Generic helpers
\* ------------------------------------------------------------------------
Range(s) == {s[k] : k \in 1..Len(s)}

Take(s, n) == SubSeq(s, 1, IF n < Len(s) THEN n ELSE Len(s))

Min2(a, b) == IF a < b THEN a ELSE b

RECURSIVE Repeat(_, _)
Repeat(x, n) == IF n <= 0 THEN <<>> ELSE <<x>> \o Repeat(x, n - 1)

RECURSIVE Concat(_)
Concat(ss) == IF ss = <<>> THEN <<>> ELSE Head(ss) \o Concat(Tail(ss))

\* ------------------------------------------------------------------------
\* The classifier: fetch_posts_from_account, body of the in-window branch
\* ------------------------------------------------------------------------
\* url values: a sequence of path parts; "/reel/" in url.lower()
LowerPart(p) == IF p = "REEL" THEN "reel" ELSE IF p = "P" THEN "p" ELSE p
HasReelPath(url) == \E k \in 1..Len(url) : LowerPart(url[k]) = "reel"

UrlAbsent == <<"<noattr>">>
UrlNone == <<>>
UrlValues == { UrlAbsent, UrlNone, <<"cdn", "p", "x">>, <<"www", "reel", "x">>,
               <<"www", "REEL", "x">> }

TypeNames == {"GraphImage", "GraphVideo", "GraphSidecar", "GraphReel", ""}
\* "reel" in typename.lower()
TypenameHasReel(t) == t \in {"GraphReel"}

\* reading the attribute attr of the post raises an exception (a lazily
\* loaded field whose fetch fails); posts without the field raises have none
Raises(post, attr) == "raises" \in DOMAIN post /\ post.raises = attr

\* a carousel branch without its except clause: the failure leaves the record
\* without carousel details
CarouselMetricsUncaught(post) ==
  IF post.typename = "GraphSidecar" /\ ~Raises(post, "mediacount") /\ post.mediacount # NoAttr
     /\ post.mediacount # 0
  THEN << [is_carousel |-> TRUE, slide_count |-> post.mediacount, total_likes |-> post.likes] >>
  ELSE <<>>

\* a carousel branch that keeps the count 0 when the slides cannot be
\* enumerated
CarouselMetricsZeroSlides(post) ==
  IF post.typename = "GraphSidecar"
  THEN LET mc == IF post.mediacount = NoAttr THEN 0 ELSE post.mediacount
       IN << [is_carousel |-> TRUE,
              slide_count |-> IF mc = 0 /\ post.sidecar # None THEN post.sidecar ELSE mc,
              total_likes |-> post.likes] >>
  ELSE <<>>

\* carousel_metrics (lines 131-167)
CarouselMetrics(post) ==
  IF post.typename = "GraphSidecar" /\ Raises(post, "mediacount")
  THEN << [is_carousel |-> TRUE, slide_count |-> 1, total_likes |-> post.likes] >>
  ELSE IF post.typename = "GraphSidecar"
  THEN LET mc == IF post.mediacount = NoAttr THEN 0 ELSE post.mediacount
           slide_count ==
             IF mc = 0
             THEN (IF post.sidecar = None THEN 1         \* get_sidecar_nodes raised
                   ELSE IF post.sidecar = 0 THEN 1      \* empty list is falsy
                   ELSE post.sidecar)
             ELSE mc
       IN << [is_carousel |-> TRUE, slide_count |-> slide_count,
              total_likes |-> post.likes] >>
  ELSE <<>>

\* views (lines 175-185): the first of the three attributes that is not None
GetViews(post) ==
  IF Raises(post, "video_view_count") THEN None
  ELSE IF post.video_view_count # None THEN post.video_view_count
  ELSE IF post.view_count # None THEN post.view_count
  ELSE post.views

\* is_reel inside "if is_video_post:" (lines 199-247)
VideoIsReel(post, views) ==
  LET typename == post.typename
      r1 == IF typename # ""
            THEN (IF TypenameHasReel(typename) \/ typename = "GraphReel" THEN TRUE
                  ELSE IF typename = "GraphVideo" THEN TRUE
                  ELSE TRUE)
            ELSE FALSE
      r2 == IF views # None /\ views > 0 /\ ~r1 THEN TRUE ELSE r1
      r3 == IF post.is_reel_attr = "true" THEN TRUE ELSE r2
      r4 == IF post.video_duration # NoAttr
               /\ 0 < post.video_duration /\ post.video_duration <= ShortFormSeconds
               /\ ~r3
            THEN TRUE ELSE r3
  IN  IF ~r4 THEN TRUE ELSE r4

\* the url check (lines 249-254), outside "if is_video_post:"
UrlForcesReel(post) ==
  post.url # UrlAbsent /\ post.url # UrlNone /\ HasReelPath(post.url)

\* is_video_post (lines 190, 195): still False when reading is_video raises
IsVideoPost(post) == ~Raises(post, "is_video") /\ post.is_video

\* a reel detection whose except clause leaves is_reel as it was
ReelDetectionFailedKeeps(post) == FALSE

\* the except clause of the reel detection (lines 256-262), entered when the
\* read of is_video, is_reel, video_duration or url raises
ReelDetectionRaises(post) ==
  \/ Raises(post, "is_video")
  \/ post.is_video /\ (Raises(post, "is_reel") \/ Raises(post, "video_duration"))
  \/ Raises(post, "url")
ReelDetectionFailed(post) == IsVideoPost(post)

\* is_reel (lines 187-262)
IsReel(post, views) ==
  LET inVideo == IF post.is_video THEN VideoIsReel(post, views) ELSE FALSE
  IN  IF ReelDetectionRaises(post) THEN ReelDetectionFailed(post)
      ELSE IF UrlForcesReel(post) THEN TRUE ELSE inVideo

\* a metric that falls back to likes also when views is 0 ("views or likes")
ReelPerformanceOrLikes(is_reel, views, likes) ==
  IF is_reel THEN (IF views # None /\ views # 0 THEN views ELSE likes) ELSE None

\* reel_performance (lines 264-267)
ReelPerformance(is_reel, views, likes) ==
  IF is_reel THEN (IF views # None THEN views ELSE likes) ELSE None

\* post_data (lines 129-295)
ClassifyPost(username, post, post_date) ==
  LET is_carousel == post.typename = "GraphSidecar"
      views == GetViews(post)
      is_reel == IsReel(post, views)
  IN  [ username |-> username,
        post_url |-> <<IF is_reel THEN "reel" ELSE "p", post.shortcode>>,
        shortcode |-> post.shortcode,
        date |-> post_date,
        likes |-> post.likes,
        comments |-> post.comments,
        engagement |-> post.likes + post.comments,
        views |-> views,
        reel_performance |-> ReelPerformance(is_reel, views, post.likes),
        is_video |-> IsVideoPost(post),
        is_reel |-> is_reel,
        is_carousel |-> is_carousel,
        carousel_metrics |-> CarouselMetrics(post) ]

\* The raw posts the classifier is checked on
RawPosts ==
  [ typename : TypeNames,
    is_video : BOOLEAN,
    likes : {0, 3},
    comments : {1},
    mediacount : {NoAttr, 0, 4},
    sidecar : {None, 0, 2},
    video_view_count : {None, 0, 9},
    view_count : {None, 5},
    views : {None},
    is_reel_attr : {"absent", "false", "true"},
    video_duration : {NoAttr, 0, 30, 120},
    url : UrlValues,
    shortcode : {1} ]

\* Raw posts one of whose optional attributes raises when it is read
RaisingAttributes ==
  {"mediacount", "video_view_count", "is_video", "is_reel", "video_duration", "url"}
FailingPosts ==
  [ typename : TypeNames,
    is_video : BOOLEAN,
    likes : {3},
    comments : {1},
    mediacount : {NoAttr, 0, 4},
    sidecar : {None, 2},
    video_view_count : {None, 9},
    view_count : {None},
    views : {None},
    is_reel_attr : {"absent", "true"},
    video_duration : {NoAttr, 30},
    url : { <<"cdn", "p", "x">>, <<"www", "reel", "x">> },
    shortcode : {1},
    raises : RaisingAttributes ]

\* ------------------------------------------------------------------------
\* fetch_posts_from_account: the scan of one account's upstream iterator
\* ------------------------------------------------------------------------
\* What Profile.from_username / profile.get_posts() hold for one account: the
\* posts in the order yielded (each "new": after end_date, "in": inside the
\* window, "old": before start_date) and how the iterator ends: exhausted
\* ("end") or raising one of the exceptions the function distinguishes.
DateKinds == {"new", "in", "old"}
Exceptions == {"ProfileNotExists", "LoginRequired", "Connection", "Other"}
Terms == {"end"} \cup Exceptions

\* the post yielded at position pos: its date and its raw record
SamplePosts ==
  << [typename |-> "GraphImage", is_video |-> FALSE, likes |-> 3, comments |-> 1,
      mediacount |-> NoAttr, sidecar |-> None, video_view_count |-> None,
      view_count |-> None, views |-> None, is_reel_attr |-> "absent",
      video_duration |-> NoAttr, url |-> <<"cdn", "p", "x">>, shortcode |-> 0],
     [typename |-> "GraphVideo", is_video |-> TRUE, likes |-> 2, comments |-> 1,
      mediacount |-> NoAttr, sidecar |-> None, video_view_count |-> 9,
      view_count |-> None, views |-> None, is_reel_attr |-> "absent",
      video_duration |-> 30, url |-> <<"cdn", "p", "x">>, shortcode |-> 0],
     [typename |-> "GraphSidecar", is_video |-> FALSE, likes |-> 3, comments |-> 0,
      mediacount |-> 4, sidecar |-> 2, video_view_count |-> None,
      view_count |-> None, views |-> None, is_reel_attr |-> "absent",
      video_duration |-> NoAttr, url |-> <<"cdn", "p", "x">>, shortcode |-> 0] >>

RawAt(pos) == [SamplePosts[((pos - 1) % Len(SamplePosts)) + 1] EXCEPT !.shortcode = pos]

DateAt(kind, pos) ==
  IF kind = "old" THEN start_date - 1 - (pos % 2)
  ELSE IF kind = "new" THEN end_date + 1 + (pos % 2)
  ELSE start_date + (pos % (WindowDays + 1))

\* the exception handlers (lines 325-348): the three named exceptions and
\* "except Exception" catch whatever is raised; every handler returns []
FetchCatches(exc) == exc \in Exceptions
ReturnOnException(posts, exc) == <<>>

\* lines 104-108: a post of kind "bad" has no date (post.date is None, or the
\* attribute is missing), so reading post_date.tzinfo raises AttributeError,
\* which only "except Exception" (lines 342-348) catches
DateRaises(kind) == kind = "bad"

\* the early exit on a streak of old posts (lines 111-117)
OldStreakBreaks(consecutive_old_posts) == consecutive_old_posts >= OldStreakLimit

\* a limit that lets one more post through
LimitBreaksLate(posts_checked) == posts_checked > max_posts_to_check + 1

\* the safety limit (lines 122-126)
LimitBreaks(posts_checked) == posts_checked > max_posts_to_check

\* a scan that passes over a post older than the window
PastRangeBreaksNever(post_date) == FALSE

\* the branch "elif post_date < start_date: break" (lines 321-323)
PastRangeBreaks(post_date) == post_date < start_date

\* The state of the for loop (lines 100-323): posts_checked, consecutive_old_posts
\* and posts, and out: <<>> while the loop runs, <<the result>> once the
\* function is left. The result: posts (what the function returns), collected
\* (the posts list when the scan ended), examined (posts pulled from the
\* iterator), raised (the exception raised, "none" without one), escaped
\* (whether it left the function), streak (consecutive_old_posts).
ScanStart == [posts_checked |-> 0, consecutive_old_posts |-> 0, posts |-> <<>>, out |-> <<>>]

\* one pull from the iterator and one pass of the loop body
ScanStep(username, feed, st) ==
  LET k == st.posts_checked + 1
  IN
  IF k > Len(feed.body)
  THEN IF feed.term = "end"
       THEN [st EXCEPT !.out =
               << [posts |-> st.posts, collected |-> st.posts, examined |-> k - 1,
                   raised |-> "none", escaped |-> FALSE,
                   streak |-> st.consecutive_old_posts] >>]
       ELSE IF FetchCatches(feed.term)
       THEN [st EXCEPT !.out =
               << [posts |-> ReturnOnException(st.posts, feed.term), collected |-> st.posts,
                   examined |-> k - 1, raised |-> feed.term, escaped |-> FALSE,
                   streak |-> st.consecutive_old_posts] >>]
       ELSE [st EXCEPT !.out =
               << [posts |-> <<>>, collected |-> st.posts,
                   examined |-> k - 1, raised |-> feed.term, escaped |-> TRUE,
                   streak |-> st.consecutive_old_posts] >>]
  ELSE IF DateRaises(feed.body[k])
  THEN [st EXCEPT !.out =
          << [posts |-> ReturnOnException(st.posts, "Other"), collected |-> st.posts,
              examined |-> k, raised |-> "Other", escaped |-> FALSE,
              streak |-> st.consecutive_old_posts] >>]
  ELSE
    LET posts_checked == k
        post_date == DateAt(feed.body[k], k)
        streak == IF post_date < start_date THEN st.consecutive_old_posts + 1 ELSE 0
        stop == [st EXCEPT !.out =
                   << [posts |-> st.posts, collected |-> st.posts, examined |-> k,
                       raised |-> "none", escaped |-> FALSE, streak |-> streak] >>]
        next == [st EXCEPT !.posts_checked = posts_checked,
                           !.consecutive_old_posts = streak]
    IN  IF post_date < start_date /\ OldStreakBreaks(streak) THEN stop
        ELSE IF LimitBreaks(posts_checked) THEN stop
        ELSE IF start_date <= post_date /\ post_date <= end_date
             THEN [next EXCEPT !.posts =
                     Append(st.posts, ClassifyPost(username, RawAt(k), post_date))]
        ELSE IF PastRangeBreaks(post_date) THEN stop
        ELSE next

\* the loop, from the loop state st on
RECURSIVE ScanFrom(_, _, _)
ScanFrom(username, feed, st) ==
  IF st.out # <<>> THEN st.out[1]
  ELSE ScanFrom(username, feed, ScanStep(username, feed, st))

fetch_posts_from_account(username, feed) == ScanFrom(username, feed, ScanStart)

\* The upstream contents the account loop is run on: at most two runs of
\* equal-kind posts, then the end of the iterator or an exception.
RunLens(kd) ==
  IF kd = "old" THEN {1, LongRun} ELSE IF kd = "in" THEN {ShortRun} ELSE {1}
Runs == {<<>>} \cup UNION { { Repeat(kd, n) : n \in RunLens(kd) } : kd \in DateKinds }
Feeds == [ body : { a \o b : a \in Runs, b \in Runs }, term : Terms ]

\* Upstream contents that do not run out before the safety limit: up to two
\* posts after the window, a run of in-window posts around the limit, then
\* nothing or one old post, and the end of the iterator or an exception.
FloodLens == (max_posts_to_check - 2)..(max_posts_to_check + FloodExtra)
FloodFeeds ==
  [ body : { Repeat("new", a) \o Repeat("in", n) \o Repeat("old", b) :
               a \in 0..2, n \in FloodLens, b \in 0..1 },
    term : Terms ]

\* Upstream contents with one record without a date among in-window posts
MalformedFeeds ==
  [ body : { Repeat("in", a) \o <<"bad">> \o Repeat("in", b) : a \in 0..2, b \in 0..2 },
    term : Terms ]

\* ------------------------------------------------------------------------
\* analyze_competitors
\* ------------------------------------------------------------------------
competitor_accounts == [k \in 1..NumAccounts |-> k]

\* fetch_posts_from_account on every account and every upstream content
ScanTable ==
  [ account \in Range(competitor_accounts) |->
      [ feed \in Feeds |-> fetch_posts_from_account(account, feed) ] ]

NoScan == [posts |-> <<>>, collected |-> <<>>, examined |-> 0, raised |-> "none",
           escaped |-> FALSE, streak |-> 0]
NoFeed == [body |-> <<>>, term |-> "end"]

\* an insertion that puts an item behind the later items of equal key
RECURSIVE InsertDescBehindEqual(_, _)
InsertDescBehindEqual(x, s) ==
  IF s = <<>> THEN <<x>>
  ELSE IF Head(s)[1] >= x[1]
       THEN <<Head(s)>> \o InsertDescBehindEqual(x, Tail(s))
  ELSE <<x>> \o s

\* stable sort, descending by key (list.sort(key=..., reverse=True)), on a
\* sequence of <<key, item>> pairs
RECURSIVE InsertDesc(_, _)
InsertDesc(x, s) ==
  IF s = <<>> THEN <<x>>
  ELSE IF Head(s)[1] > x[1] THEN <<Head(s)>> \o InsertDesc(x, Tail(s))
  ELSE <<x>> \o s

RECURSIVE SortDesc(_)
SortDesc(s) ==
  IF s = <<>> THEN <<>>
  ELSE InsertDesc(Head(s), SortDesc(Tail(s)))

Items(pairs) == [k \in 1..Len(pairs) |-> pairs[k][2]]

\* key=lambda x: x.get("reel_performance", 0) or 0
ReelKey(p) == IF p.reel_performance = None THEN 0 ELSE p.reel_performance
\* key=lambda x: x["engagement"]
EngagementKey(p) == p.engagement
ItemIsReel(p) == p.is_reel
ItemIsNotReel(p) == ~p.is_reel

\* a ranking of the reels by likes alone
RankReelsByLikes(items) ==
  LET reels == SelectSeq(items, ItemIsReel)
  IN  Take(Items(SortDesc([k \in 1..Len(reels) |-> <<reels[k].likes, reels[k]>>])), TopN)

\* lines 435-453
RankReels(items) ==
  LET reels == SelectSeq(items, ItemIsReel)
  IN  Take(Items(SortDesc([k \in 1..Len(reels) |-> <<ReelKey(reels[k]), reels[k]>>])), TopN)
RankPosts(items) ==
  LET posts == SelectSeq(items, ItemIsNotReel)
  IN  Take(Items(SortDesc([k \in 1..Len(posts) |-> <<EngagementKey(posts[k]), posts[k]>>])), TopN)

ExtendAllPostsResetting(all, scan) ==
  IF ~scan.escaped /\ scan.posts # <<>> THEN all \o scan.posts ELSE <<>>

\* an accumulation that puts the newest account's items in front
ExtendAllPostsInFront(all, scan) ==
  IF ~scan.escaped /\ scan.posts # <<>> THEN scan.posts \o all ELSE all

\* a bookkeeping that files only the accounts whose fetch raised
NextFailedOnlyRaised(failed, account, scan) ==
  IF scan.raised # "none"
  THEN Append(failed, [account |-> account, reason |-> "no posts found"])
  ELSE failed

\* lines 394-410: what one account's fetch does to the accumulators; scan.escaped
\* is the "except Exception" branch of analyze_competitors
ExtendAllPosts(all, scan) ==
  IF ~scan.escaped /\ scan.posts # <<>> THEN all \o scan.posts ELSE all
NextSuccessful(succ, account, scan) ==
  IF ~scan.escaped /\ scan.posts # <<>> THEN Append(succ, account) ELSE succ
NextFailed(failed, account, scan) ==
  IF scan.escaped THEN Append(failed, [account |-> account, reason |-> "error"])
  ELSE IF scan.posts # <<>> THEN failed
  ELSE Append(failed, [account |-> account, reason |-> "no posts found"])

\* a loop that waits before and after every account
SleepsOfIterationAlways(idx) == <<DelayBefore, DelayAfter>>

\* lines 389-392 and 414-419
SleepsOfIteration(idx) ==
  (IF idx > 0 THEN <<DelayBefore>> ELSE <<>>)
  \o (IF idx < Len(competitor_accounts) - 1 THEN <<DelayAfter>> ELSE <<>>)

\* ------------------------------------------------------------------------
\* Text: a str is a sequence of one-character strings
\* ------------------------------------------------------------------------
Whitespace == {" ", "\n", "\t"}

UpperLetters ==
  <<"A","B","C","D","E","F","G","H","I","J","K","L","M","N","O","P","Q","R","S","T","U","V",
    "W","X","Y","Z">>
LowerLetters ==
  <<"a","b","c","d","e","f","g","h","i","j","k","l","m","n","o","p","q","r","s","t","u","v",
    "w","x","y","z">>

\* str.lower()
LowerChar(c) ==
  IF \E k \in 1..Len(UpperLetters) : UpperLetters[k] = c
  THEN LowerLetters[CHOOSE k \in 1..Len(UpperLetters) : UpperLetters[k] = c]
  ELSE c
Lower(s) == [k \in 1..Len(s) |-> LowerChar(s[k])]

\* pat in s
Contains(s, pat) ==
  \E k \in 0..(Len(s) - Len(pat)) : SubSeq(s, k + 1, k + Len(pat)) = pat

\* str.strip()
RECURSIVE LStrip(_)
LStrip(s) == IF s # <<>> /\ Head(s) \in Whitespace THEN LStrip(Tail(s)) ELSE s
RECURSIVE RStrip(_)
RStrip(s) ==
  IF s # <<>> /\ s[Len(s)] \in Whitespace THEN RStrip(SubSeq(s, 1, Len(s) - 1)) ELSE s
Strip(s) == RStrip(LStrip(s))

\* the least element of a non-empty set of numbers
MinOf(S) == CHOOSE x \in S : \A y \in S : x <= y

\* the parts of s between the positions that hold a character of cs
SplitOn(s, cs) ==
  LET seps == {k \in 1..Len(s) : s[k] \in cs}
      cut(i) == IF i = 0 THEN 0
                ELSE IF i > Cardinality(seps) THEN Len(s) + 1
                ELSE CHOOSE k \in seps : Cardinality({j \in seps : j < k}) = i - 1
  IN  [i \in 1..(Cardinality(seps) + 1) |-> SubSeq(s, cut(i - 1) + 1, cut(i) - 1)]

\* str.split(c) for a one-character separator: the parts, at least one
Split(s, c) == SplitOn(s, {c})

\* sep.join(parts)
RECURSIVE Join(_, _)
Join(parts, sep) ==
  IF parts = <<>> THEN <<>>
  ELSE IF Len(parts) = 1 THEN parts[1]
  ELSE parts[1] \o sep \o Join(Tail(parts), sep)

\* str(n) for a natural number
Digits == <<"0","1","2","3","4","5","6","7","8","9">>
RECURSIVE IntToStr(_)
IntToStr(n) == IF n < 10 THEN <<Digits[n + 1]>> ELSE IntToStr(n \div 10) \o <<Digits[(n % 10) + 1]>>

\* ------------------------------------------------------------------------
\* The literals of youtube_podcast_analyzer.py
\* ------------------------------------------------------------------------
\* "Transcript too short to summarize."
TooShortMsg ==
  <<"T","r","a","n","s","c","r","i","p","t"," ","t","o","o"," ","s","h","o","r","t"," ","t","o",
    " ","s","u","m","m","a","r","i","z","e",".">>

\* "Summary generation returned empty response."
EmptyResponseMsg ==
  <<"S","u","m","m","a","r","y"," ","g","e","n","e","r","a","t","i","o","n"," ","r","e","t","u",
    "r","n","e","d"," ","e","m","p","t","y"," ","r","e","s","p","o","n","s","e",".">>

\* "Error: Rate limited after "
RateLimitedPrefix ==
  <<"E","r","r","o","r",":"," ","R","a","t","e"," ","l","i","m","i","t","e","d"," ","a","f","t",
    "e","r"," ">>

\* " attempts during summarization. Please try again later."
RateLimitedSuffix ==
  <<" ","a","t","t","e","m","p","t","s"," ","d","u","r","i","n","g"," ","s","u","m","m","a","r",
    "i","z","a","t","i","o","n","."," ","P","l","e","a","s","e"," ","t","r","y"," ","a","g","a",
    "i","n"," ","l","a","t","e","r",".">>

\* "Error: Summarization failed."
SummarizationFailedMsg ==
  <<"E","r","r","o","r",":"," ","S","u","m","m","a","r","i","z","a","t","i","o","n"," ","f","a",
    "i","l","e","d",".">>

\* "..."
Ellipsis ==
  <<".",".",".">>

\* ". "
SentenceSep ==
  <<"."," ">>

\* "429"
Str429 ==
  <<"4","2","9">>

\* "Too Many Requests"
StrTooManyRequests ==
  <<"T","o","o"," ","M","a","n","y"," ","R","e","q","u","e","s","t","s">>

\* "rate limit"
StrRateLimit ==
  <<"r","a","t","e"," ","l","i","m","i","t">>

\* "quota"
StrQuota ==
  <<"q","u","o","t","a">>

\* "RESOURCE_EXHAUSTED"
StrResourceExhausted ==
  <<"R","E","S","O","U","R","C","E","_","E","X","H","A","U","S","T","E","D">>

\* "403"
Str403 ==
  <<"4","0","3">>

\* "Forbidden"
StrForbidden ==
  <<"F","o","r","b","i","d","d","e","n">>

\* "Error"
StrError ==
  <<"E","r","r","o","r">>

\* ------------------------------------------------------------------------
\* Summarizer: summarize_transcript, summarize_with_gemini, summarize_with_gpt
\* ------------------------------------------------------------------------
GeminiMaxRetries == 1
GeminiBackoffSeconds == 15
GeminiMaxChars == 30000
GptMaxChars == 12000
MinTranscriptChars == 50
FallbackSentences == 5
PlainSentences == 3

\* What a called function does: return a text, or raise
Return(text, calls, waits) ==
  [kind |-> "return", text |-> text, calls |-> calls, waits |-> waits]
Raise(msg, calls, waits) ==
  [kind |-> "raise", text |-> msg, calls |-> calls, waits |-> waits]

\* sentences = transcript.split("."); ". ".join(sentences[:n]) + "..."
Extractive(transcript, n) == Join(Take(Split(transcript, "."), n), SentenceSep) \o Ellipsis

\* transcript[:max_chars] + "..." when longer than max_chars
Truncate(transcript, max_chars) ==
  IF Len(transcript) > max_chars THEN SubSeq(transcript, 1, max_chars) \o Ellipsis
  ELSE transcript

\* the test of lines 851-857
IsSummaryRateLimit(error_str) ==
  \/ Contains(error_str, Str429)
  \/ Contains(error_str, StrTooManyRequests)
  \/ Contains(Lower(error_str), StrRateLimit)
  \/ Contains(Lower(error_str), StrQuota)
  \/ Contains(error_str, StrResourceExhausted)

\* a last attempt that waits before it gives up
GeminiRateLimitExhaustedAfterWait(transcript, calls, waits) ==
  Return(RateLimitedPrefix \o IntToStr(GeminiMaxRetries) \o RateLimitedSuffix, calls,
         Append(waits, calls * GeminiBackoffSeconds))

\* line 866: what a rate-limit error on the last attempt returns
GeminiRateLimitExhausted(transcript, calls, waits) ==
  Return(RateLimitedPrefix \o IntToStr(GeminiMaxRetries) \o RateLimitedSuffix, calls, waits)

\* lines 868-873: what any other error returns
GeminiOtherError(transcript, calls, waits) ==
  Return(Extractive(transcript, FallbackSentences), calls, waits)

\* the for loop of summarize_with_gemini (lines 799-876), from attempt on;
\* outcomes[attempt + 1] is what the provider does on that attempt
RECURSIVE GeminiAttempt(_, _, _, _)
GeminiAttempt(transcript, outcomes, attempt, waits) ==
  IF attempt >= GeminiMaxRetries
  THEN Return(SummarizationFailedMsg, attempt, waits)
  ELSE
    LET t == Truncate(transcript, GeminiMaxChars)
        o == outcomes[attempt + 1]
        calls == attempt + 1
    IN  IF o.kind = "text"
        THEN (IF Strip(o.text) # <<>> THEN Return(Strip(o.text), calls, waits)
              ELSE Return(EmptyResponseMsg, calls, waits))
        ELSE IF IsSummaryRateLimit(o.text)
             THEN (IF attempt < GeminiMaxRetries - 1
                   THEN GeminiAttempt(t, outcomes, attempt + 1,
                                      Append(waits, (attempt + 1) * GeminiBackoffSeconds))
                   ELSE GeminiRateLimitExhausted(t, calls, waits))
        ELSE GeminiOtherError(t, calls, waits)

summarize_with_gemini(transcript, settings, outcomes) ==
  IF ~settings.api_key \/ ~settings.genai
  THEN Return(Extractive(transcript, FallbackSentences), 0, <<>>)
  ELSE GeminiAttempt(transcript, outcomes, 0, <<>>)

\* lines 913-914: the provider's text is returned stripped
GptSuccess(text) == Return(Strip(text), 1, <<>>)

summarize_with_gpt(transcript, settings, outcomes) ==
  IF ~settings.api_key \/ ~settings.openai
  THEN Return(Extractive(transcript, FallbackSentences), 0, <<>>)
  ELSE LET t == Truncate(transcript, GptMaxChars)
           o == outcomes[1]
       IN  IF o.kind = "text" THEN GptSuccess(o.text)
           ELSE Return(Extractive(t, FallbackSentences), 1, <<>>)

\* settings.get("summarization", {}).get("method", "gemini")
SummarizationMethod(settings) ==
  IF settings.method = "<absent>" THEN "gemini" ELSE settings.method

\* lines 777-780
PlainSummary(transcript) == Return(Extractive(transcript, PlainSentences), 0, <<>>)

TranscriptTooShort(transcript) ==
  transcript = <<>> \/ Len(Strip(transcript)) < MinTranscriptChars

summarize_transcript(transcript, settings, outcomes) ==
  IF TranscriptTooShort(transcript) THEN Return(TooShortMsg, 0, <<>>)
  ELSE IF SummarizationMethod(settings) = "gemini"
       THEN summarize_with_gemini(transcript, settings, outcomes)
  ELSE IF SummarizationMethod(settings) = "openai_gpt"
       THEN summarize_with_gpt(transcript, settings, outcomes)
  ELSE PlainSummary(transcript)

\* The transcripts, settings and provider behaviours the summarizer is run on
\* "Alpha beta gamma."
SentenceA ==
  <<"A","l","p","h","a"," ","b","e","t","a"," ","g","a","m","m","a",".">>

\* "Ok."
SentenceB ==
  <<"O","k",".">>

\* "Error Codes matter here."
SentenceC ==
  <<"E","r","r","o","r"," ","C","o","d","e","s"," ","m","a","t","t","e","r"," ","h","e","r","e",
    ".">>

\* "  The hosts discuss Alpha.  "
ProviderText ==
  <<" "," ","T","h","e"," ","h","o","s","t","s"," ","d","i","s","c","u","s","s"," ","A","l","p",
    "h","a","."," "," ">>

\* "  "
ProviderBlank ==
  <<" "," ">>

\* "HTTP 429 returned"
Err429 ==
  <<"H","T","T","P"," ","4","2","9"," ","r","e","t","u","r","n","e","d">>

\* "Too Many Requests"
ErrTooMany ==
  <<"T","o","o"," ","M","a","n","y"," ","R","e","q","u","e","s","t","s">>

\* "Rate Limit exceeded"
ErrRateLimit ==
  <<"R","a","t","e"," ","L","i","m","i","t"," ","e","x","c","e","e","d","e","d">>

\* "Quota exceeded for model"
ErrQuota ==
  <<"Q","u","o","t","a"," ","e","x","c","e","e","d","e","d"," ","f","o","r"," ","m","o","d","e",
    "l">>

\* "RESOURCE_EXHAUSTED"
ErrExhausted ==
  <<"R","E","S","O","U","R","C","E","_","E","X","H","A","U","S","T","E","D">>

\* "500 internal failure"
ErrServer ==
  <<"5","0","0"," ","i","n","t","e","r","n","a","l"," ","f","a","i","l","u","r","e">>

\* "'NoneType' object has no attribute 'strip'"
ErrNoneType ==
  <<"'","N","o","n","e","T","y","p","e","'"," ","o","b","j","e","c","t"," ","h","a","s"," ","n",
    "o"," ","a","t","t","r","i","b","u","t","e"," ","'","s","t","r","i","p","'">>

\* "ERROR: [youtube] x1: Video unavailable"
ErrDownload ==
  <<"E","R","R","O","R",":"," ","[","y","o","u","t","u","b","e","]"," ","x","1",":"," ","V","i",
  "d","e","o"," ","u","n","a","v","a","i","l","a","b","l","e">>

MaxSentences == 7
PadLen == 20

Sentences == {SentenceA, SentenceB, SentenceC}
Pads == {<<>>, Repeat(" ", PadLen)}
Transcripts ==
  { lead \o Join(Repeat(sen, n), <<" ">>) \o trail :
      lead \in Pads, trail \in Pads, sen \in Sentences, n \in 0..MaxSentences }

Settings ==
  [ method : {"<absent>", "gemini", "openai_gpt", "none"},
    api_key : BOOLEAN, genai : BOOLEAN, openai : BOOLEAN ]

ProviderOutcomes ==
  { [kind |-> "text", text |-> x] : x \in {ProviderText, ProviderBlank, <<>>} }
  \cup { [kind |-> "raise", text |-> x] :
           x \in {Err429, ErrTooMany, ErrRateLimit, ErrQuota, ErrExhausted, ErrServer,
                  ErrNoneType} }
OutcomeSeqs == [1..GeminiMaxRetries -> ProviderOutcomes]

\* ------------------------------------------------------------------------
\* More literals of youtube_podcast_analyzer.py
\* ------------------------------------------------------------------------
\* "SKIP_NO_ENGLISH"
SkipNoEnglish ==
  <<"S","K","I","P","_","N","O","_","E","N","G","L","I","S","H">>

\* "Error: Rate limited. Please try again later."
TranscriptRateLimitedMsg ==
  <<"E","r","r","o","r",":"," ","R","a","t","e"," ","l","i","m","i","t","e","d","."," ","P","l",
    "e","a","s","e"," ","t","r","y"," ","a","g","a","i","n"," ","l","a","t","e","r",".">>

\* "Error extracting transcript with yt-dlp: "
TranscriptErrorPrefix ==
  <<"E","r","r","o","r"," ","e","x","t","r","a","c","t","i","n","g"," ","t","r","a","n","s","c",
    "r","i","p","t"," ","w","i","t","h"," ","y","t","-","d","l","p",":"," ">>

\* "Could not get subtitle URL for video: "
NoSubtitleUrlPrefix ==
  <<"C","o","u","l","d"," ","n","o","t"," ","g","e","t"," ","s","u","b","t","i","t","l","e"," ",
    "U","R","L"," ","f","o","r"," ","v","i","d","e","o",":"," ">>

\* "Error extracting transcript after "
AfterAttemptsPrefix ==
  <<"E","r","r","o","r"," ","e","x","t","r","a","c","t","i","n","g"," ","t","r","a","n","s","c",
    "r","i","p","t"," ","a","f","t","e","r"," ">>

\* " attempts."
AfterAttemptsSuffix ==
  <<" ","a","t","t","e","m","p","t","s",".">>

\* "yt-dlp not installed. Install it with: pip install yt-dlp"
YtDlpMissingMsg ==
  <<"y","t","-","d","l","p"," ","n","o","t"," ","i","n","s","t","a","l","l","e","d","."," ","I",
    "n","s","t","a","l","l"," ","i","t"," ","w","i","t","h",":"," ","p","i","p"," ","i","n","s",
    "t","a","l","l"," ","y","t","-","d","l","p">>

\* "Transcription skipped."
TranscriptionSkippedMsg ==
  <<"T","r","a","n","s","c","r","i","p","t","i","o","n"," ","s","k","i","p","p","e","d",".">>

\* "OpenAI API key not configured or openai package not installed."
WhisperNotConfiguredMsg ==
  <<"O","p","e","n","A","I"," ","A","P","I"," ","k","e","y"," ","n","o","t"," ","c","o","n","f",
    "i","g","u","r","e","d"," ","o","r"," ","o","p","e","n","a","i"," ","p","a","c","k","a","g",
    "e"," ","n","o","t"," ","i","n","s","t","a","l","l","e","d",".">>

\* "HTTP Error 429: Too Many Requests"
Http429Msg ==
  <<"H","T","T","P"," ","E","r","r","o","r"," ","4","2","9",":"," ","T","o","o"," ","M","a","n",
    "y"," ","R","e","q","u","e","s","t","s">>

\* "HTTP Error "
HttpErrorPrefix ==
  <<"H","T","T","P"," ","E","r","r","o","r"," ">>

\* ": "
ColonSpace ==
  <<":"," ">>

\* "Error downloading subtitle: "
DownloadErrorPrefix ==
  <<"E","r","r","o","r"," ","d","o","w","n","l","o","a","d","i","n","g"," ","s","u","b","t","i",
    "t","l","e",":"," ">>

\* "Error parsing VTT file: "
VttErrorPrefix ==
  <<"E","r","r","o","r"," ","p","a","r","s","i","n","g"," ","V","T","T"," ","f","i","l","e",":",
    " ">>

\* "Transcript not available"
TranscriptNotAvailableMsg ==
  <<"T","r","a","n","s","c","r","i","p","t"," ","n","o","t"," ","a","v","a","i","l","a","b","l",
    "e">>

\* "Summary not available - API error"
SummaryApiErrorMsg ==
  <<"S","u","m","m","a","r","y"," ","n","o","t"," ","a","v","a","i","l","a","b","l","e"," ","-",
    " ","A","P","I"," ","e","r","r","o","r">>

\* "Summary not available - no transcript"
SummaryNoTranscriptMsg ==
  <<"S","u","m","m","a","r","y"," ","n","o","t"," ","a","v","a","i","l","a","b","l","e"," ","-",
    " ","n","o"," ","t","r","a","n","s","c","r","i","p","t">>

\* "Transcription error: "
TranscriptionErrorPrefix ==
  <<"T","r","a","n","s","c","r","i","p","t","i","o","n"," ","e","r","r","o","r",":"," ">>

\* "Error generating summary: "
ErrorGeneratingSummaryPrefix ==
  <<"E","r","r","o","r"," ","g","e","n","e","r","a","t","i","n","g"," ","s","u","m","m","a","r",
    "y",":"," ">>

\* "'NoneType' object has no attribute 'get'"
NoneTypeGetMsg ==
  <<"'","N","o","n","e","T","y","p","e","'"," ","o","b","j","e","c","t"," ","h","a","s"," ","n",
    "o"," ","a","t","t","r","i","b","u","t","e"," ","'","g","e","t","'">>

\* "WEBVTT"
StrWebvtt ==
  <<"W","E","B","V","T","T">>

\* "NOTE"
StrNote ==
  <<"N","O","T","E">>

\* "-->"
StrArrow ==
  <<"-","-",">">>

\* "vtt"
StrVtt ==
  <<"v","t","t">>

\* ".,!?;:"
TopicPunctuation ==
  <<".",",","!","?",";",":">>

\* "https://www.youtube.com/watch?v="
WatchUrlPrefix ==
  <<"h","t","t","p","s",":","/","/","w","w","w",".","y","o","u","t","u","b","e",".","c","o","m",
    "/","w","a","t","c","h","?","v","=">>

\* ------------------------------------------------------------------------
\* parse_vtt_subtitle
\* ------------------------------------------------------------------------
StartsWith(s, pre) == Len(pre) <= Len(s) /\ SubSeq(s, 1, Len(pre)) = pre

\* the position of the first c in s at or after k, 0 when there is none
FindFrom(s, c, k) ==
  LET at == {j \in k..Len(s) : s[j] = c} IN IF at = {} THEN 0 ELSE MinOf(at)

\* re.sub(r"<[^>]+>", "", text_line): a tag starts at a "<" whose next ">" is
\* at least two characters further on
RECURSIVE RemoveTagsFrom(_, _)
RemoveTagsFrom(s, k) ==
  LET starts == {i \in k..Len(s) : s[i] = "<" /\ FindFrom(s, ">", i + 1) > i + 1}
  IN  IF starts = {} THEN SubSeq(s, k, Len(s))
      ELSE SubSeq(s, k, MinOf(starts) - 1)
             \o RemoveTagsFrom(s, FindFrom(s, ">", MinOf(starts) + 1) + 1)
\* a parser that leaves inline markup in the text
RemoveTagsNot(s) == s

RemoveTags(s) == RemoveTagsFrom(s, 1)

\* the inner while (lines 686-692): the text lines from line i up to the next
\* blank line; the result is <<text_parts, i>>
RECURSIVE CueText(_, _, _)
CueText(lines, i, text_parts) ==
  IF i <= Len(lines) /\ Strip(lines[i]) # <<>>
  THEN LET text_line == RemoveTags(Strip(lines[i]))
       IN  CueText(lines, i + 1,
                   IF text_line # <<>> THEN Append(text_parts, text_line) ELSE text_parts)
  ELSE <<text_parts, i>>

\* the outer while (lines 673-697); i counts from 1
RECURSIVE VttLines(_, _, _)
VttLines(lines, i, transcript_lines) ==
  IF i > Len(lines) THEN transcript_lines
  ELSE LET line == Strip(lines[i])
       IN  IF StartsWith(line, StrWebvtt) \/ StartsWith(line, StrNote) \/ line = <<>>
           THEN VttLines(lines, i + 1, transcript_lines)
           ELSE IF Contains(line, StrArrow)
           THEN LET cue == CueText(lines, i + 1, <<>>)
                IN  VttLines(lines, cue[2] + 1,
                             IF cue[1] # <<>>
                             THEN Append(transcript_lines, Join(cue[1], <<" ">>))
                             ELSE transcript_lines)
           ELSE VttLines(lines, i + 1, transcript_lines)

\* file.readable = FALSE: open() or read() raises, caught on line 701
parse_vtt_subtitle(file) ==
  IF ~file.readable THEN VttErrorPrefix \o file.content
  ELSE Join(VttLines(Split(file.content, "\n"), 1, <<>>), <<" ">>)

\* ------------------------------------------------------------------------
\* transcribe_with_youtube, transcribe_with_openai_whisper, transcribe_video
\* ------------------------------------------------------------------------
TranscribeMaxRetries == 3
EnglishLangs == <<"en", "en-US", "en-GB">>

\* the first of en, en-US, en-GB that is a key of tracks, "" when none is
FirstEnglish(tracks) ==
  IF \E k \in 1..Len(EnglishLangs) : EnglishLangs[k] \in DOMAIN tracks
  THEN EnglishLangs[CHOOSE k \in 1..Len(EnglishLangs) :
                      /\ EnglishLangs[k] \in DOMAIN tracks
                      /\ \A j \in 1..(k - 1) : EnglishLangs[j] \notin DOMAIN tracks]
  ELSE ""

\* a selection that falls back to whatever language a video has
SelectTrackAnyLanguage(subtitles, automatic_captions) ==
  IF DOMAIN subtitles # {}
  THEN <<CHOOSE l \in DOMAIN subtitles : TRUE, subtitles[CHOOSE l \in DOMAIN subtitles : TRUE]>>
  ELSE IF DOMAIN automatic_captions # {}
  THEN <<CHOOSE l \in DOMAIN automatic_captions : TRUE,
         automatic_captions[CHOOSE l \in DOMAIN automatic_captions : TRUE]>>
  ELSE <<"", <<>>>>

\* lines 566-582: <<subtitle_lang, subtitle_data>>
SelectTrack(subtitles, automatic_captions) ==
  IF FirstEnglish(subtitles) # ""
  THEN <<FirstEnglish(subtitles), subtitles[FirstEnglish(subtitles)]>>
  ELSE IF FirstEnglish(automatic_captions) # ""
  THEN <<FirstEnglish(automatic_captions),
         automatic_captions[FirstEnglish(automatic_captions)]>>
  ELSE <<"", <<>>>>

\* lines 586-596: no English track, or an English track without formats
NoEnglish(subtitle_lang, subtitle_data) == subtitle_lang = "" \/ subtitle_data = <<>>

\* lines 599-608: the url of the first vtt format, else of the first format
RECURSIVE FirstVtt(_, _)
FirstVtt(subtitle_data, k) ==
  IF k > Len(subtitle_data) THEN 0
  ELSE IF subtitle_data[k].ext = StrVtt \/ Contains(subtitle_data[k].url, StrVtt) THEN k
  ELSE FirstVtt(subtitle_data, k + 1)
SubtitleUrl(subtitle_data) ==
  LET k == FirstVtt(subtitle_data, 1)
      u == IF k = 0 THEN <<>> ELSE subtitle_data[k].url
  IN  IF u = <<>> THEN subtitle_data[1].url ELSE u

\* the test of lines 646-652
IsTranscriptRateLimit(error_str) ==
  \/ Contains(error_str, Str429)
  \/ Contains(error_str, StrTooManyRequests)
  \/ Contains(Lower(error_str), StrRateLimit)
  \/ Contains(error_str, Str403)
  \/ Contains(error_str, StrForbidden)

\* the except branch of lines 643-657
TranscriptError(error_str) ==
  IF IsTranscriptRateLimit(error_str) THEN TranscriptRateLimitedMsg
  ELSE TranscriptErrorPrefix \o error_str

\* lines 622-630: the message of the exception a failed download is turned into
DownloadError(download) ==
  IF download.kind = "http"
  THEN (IF download.code = 429 THEN Http429Msg
        ELSE HttpErrorPrefix \o IntToStr(download.code) \o ColonSpace \o download.msg)
  ELSE DownloadErrorPrefix \o download.msg

\* one pass of the body of "for attempt in range(max_retries)" (lines 535-657):
\* every path of it returns
TranscribeAttempt(video_url, tr) ==
  IF tr.info = "raise" THEN TranscriptError(tr.err)
  ELSE IF tr.info = "none" THEN TranscriptError(NoneTypeGetMsg)
  ELSE LET track == SelectTrack(tr.subtitles, tr.automatic_captions)
       IN  IF NoEnglish(track[1], track[2]) THEN SkipNoEnglish
           ELSE IF SubtitleUrl(track[2]) = <<>> THEN NoSubtitleUrlPrefix \o video_url
           ELSE IF tr.download.kind # "ok" THEN TranscriptError(DownloadError(tr.download))
           ELSE parse_vtt_subtitle(tr.download.file)

\* settings.yt_dlp: whether the yt_dlp module was imported
transcribe_with_youtube(video_url, settings, tr) ==
  IF ~settings.yt_dlp THEN YtDlpMissingMsg
  ELSE IF TranscribeMaxRetries >= 1 THEN TranscribeAttempt(video_url, tr)
  ELSE AfterAttemptsPrefix \o IntToStr(TranscribeMaxRetries) \o AfterAttemptsSuffix

\* how many passes of "for attempt in range(max_retries)" (line 534) a call
\* of transcribe_video begins: every path of the first pass returns (590, 596,
\* 611, 641, 654, 657), so a second pass is never begun
TranscribePasses(settings, tr) ==
  IF settings.transcription \notin {"openai_whisper", "skip"} /\ settings.yt_dlp
     /\ TranscribeMaxRetries >= 1
  THEN 1 ELSE 0

\* lines 704-762, by what the download and the Whisper call deliver
transcribe_with_openai_whisper(video_url, settings, tr) ==
  IF ~settings.whisper_key \/ ~settings.openai THEN WhisperNotConfiguredMsg
  ELSE IF tr.whisper.kind = "text" THEN tr.whisper.text
  ELSE TranscriptionErrorPrefix \o tr.whisper.text

\* lines 493-508
transcribe_video(video_url, settings, tr) ==
  IF settings.transcription = "youtube" THEN transcribe_with_youtube(video_url, settings, tr)
  ELSE IF settings.transcription = "openai_whisper"
       THEN transcribe_with_openai_whisper(video_url, settings, tr)
  ELSE IF settings.transcription = "skip" THEN TranscriptionSkippedMsg
  ELSE transcribe_with_youtube(video_url, settings, tr)

\* ------------------------------------------------------------------------
\* extract_key_topics
\* ------------------------------------------------------------------------
MaxTopics == 5
MinTopicLen == 3

\* str.split(): the maximal runs of non-whitespace characters
IsNonEmpty(w) == w # <<>>
Words(s) == SelectSeq(SplitOn(s, Whitespace), IsNonEmpty)

\* w.strip(".,!?;:")
RECURSIVE LStripChars(_, _)
LStripChars(s, cs) == IF s # <<>> /\ Head(s) \in cs THEN LStripChars(Tail(s), cs) ELSE s
RECURSIVE RStripChars(_, _)
RStripChars(s, cs) ==
  IF s # <<>> /\ s[Len(s)] \in cs THEN RStripChars(SubSeq(s, 1, Len(s) - 1), cs) ELSE s
StripChars(s, cs) == RStripChars(LStripChars(s, cs), cs)

IsUpper(c) == \E k \in 1..Len(UpperLetters) : UpperLetters[k] = c

\* the filter of line 930
IsTopicWord(w) == w # <<>> /\ IsUpper(w[1]) /\ Len(w) > MinTopicLen

\* Counter(capitalized): <<count, word>> pairs in order of first occurrence
RECURSIVE CountWords(_, _)
CountWords(ws, counts) ==
  IF ws = <<>> THEN counts
  ELSE LET w == Head(ws)
       IN  IF \E k \in 1..Len(counts) : counts[k][2] = w
           THEN CountWords(Tail(ws),
                  [k \in 1..Len(counts) |->
                     IF counts[k][2] = w THEN <<counts[k][1] + 1, w>> ELSE counts[k]])
           ELSE CountWords(Tail(ws), Append(counts, <<1, w>>))

extract_key_topics(transcript) ==
  IF transcript = <<>> \/ Len(Strip(transcript)) < MinTranscriptChars THEN <<>>
  ELSE LET words == Words(transcript)
           kept == SelectSeq(words, IsTopicWord)
           capitalized == [k \in 1..Len(kept) |-> StripChars(kept[k], Range(TopicPunctuation))]
       IN  Take(Items(SortDesc(CountWords(capitalized, <<>>))), MaxTopics)

\* ------------------------------------------------------------------------
\* fetch_podcasts_from_channel: discovery (lines 187-302)
\* ------------------------------------------------------------------------
max_podcasts_per_channel == 3
MaxVideosToCheck == 20
VideoDelay == 5
SummaryDelay == 2

\* an upload_date string of 8 or more characters that strptime rejects
BadDate == -3

\* line 193: entries = [e for e in entries if e is not None]
IsNotNone(e) == ~e.none
DropNone(entries) == SelectSeq(entries, IsNotNone)

\* lines 188-201: the entries of the flat extraction
ListedEntries(flat) ==
  IF flat.status # "dict" THEN <<>>
  ELSE IF DropNone(flat.entries) = <<>> /\ flat.has_id THEN <<flat.self>>
  ELSE DropNone(flat.entries)

\* lines 228-233: the entry is a non-empty dict with an id
HasVideoId(entry) == entry.dict /\ entry.id # None

\* lines 270-288: <<upload_date>>, or <<>> where the code continues
ParseUploadDate(video_info) ==
  IF video_info.upload_date # None
  THEN (IF video_info.upload_date = BadDate THEN <<>> ELSE <<video_info.upload_date>>)
  ELSE IF video_info.timestamp # None /\ video_info.timestamp # 0
       THEN <<video_info.timestamp>>
  ELSE <<>>

\* line 291
OutOfRange(upload_date) == upload_date < start_date \/ upload_date > end_date

\* lines 236-302: whether the entry is appended to matching_videos
IsMatch(entry) ==
  /\ entry.info = "ok"
  /\ entry.title # <<>>
  /\ ParseUploadDate(entry) # <<>>
  /\ ~OutOfRange(ParseUploadDate(entry)[1])

\* a loop that stops one match late
StopDiscoveryLate(matching_videos, K) == Len(matching_videos) > K

\* line 222
StopDiscovery(matching_videos, K) == Len(matching_videos) >= K

\* the loop of lines 220-302 from index idx on; examined lists the indexes
\* whose body ran, resolved those whose metadata was requested
RECURSIVE DiscoverFrom(_, _, _, _, _, _)
DiscoverFrom(entries, idx, K, matching_videos, examined, resolved) ==
  IF idx > Len(entries) \/ StopDiscovery(matching_videos, K)
  THEN [matching_videos |-> matching_videos, examined |-> examined, resolved |-> resolved]
  ELSE IF ~HasVideoId(entries[idx])
       THEN DiscoverFrom(entries, idx + 1, K, matching_videos,
                         Append(examined, idx), resolved)
  ELSE DiscoverFrom(entries, idx + 1, K,
                    IF IsMatch(entries[idx]) THEN Append(matching_videos, entries[idx])
                    ELSE matching_videos,
                    Append(examined, idx), Append(resolved, idx))

\* lines 207-302 with max_podcasts_per_channel = K and the budget of line 210
Discover(entries, K, budget) ==
  DiscoverFrom(Take(entries, Min2(budget, Len(entries))), 1, K, <<>>, <<>>, <<>>)

\* ------------------------------------------------------------------------
\* fetch_podcasts_from_channel: one matching video (lines 315-464)
\* ------------------------------------------------------------------------
VideoUrl(entry) == WatchUrlPrefix \o IntToStr(entry.id)

\* lines 399-403
SkipsVideo(transcript) == transcript = SkipNoEnglish

\* a pipeline that hands every transcript text to the summarizer
SummarizableAlways(transcript) == TRUE

\* lines 405-409
Summarizable(transcript) ==
  /\ transcript # <<>>
  /\ Len(Strip(transcript)) > MinTranscriptChars
  /\ ~Contains(transcript, StrError)

\* a pipeline that accepts every non-empty summary text
SummaryUsableAnyText(summary) == summary # <<>>

\* line 430
SummaryUsable(summary) == summary # <<>> /\ ~Contains(summary, StrError)

\* lines 351-362 with the three fields the branches fill in
PodcastData(entry, transcript, summary, key_topics) ==
  [ video_id |-> entry.id, title |-> entry.title, channel |-> 1,
    url |-> VideoUrl(entry), published_date |-> ParseUploadDate(entry)[1],
    duration |-> entry.duration, views |-> entry.view_count,
    summary |-> summary, transcript |-> transcript, key_topics |-> key_topics ]

\* lines 445-455
NoTranscriptPodcast(entry, transcript) ==
  PodcastData(entry,
              IF transcript # <<>> THEN transcript ELSE TranscriptNotAvailableMsg,
              SummaryNoTranscriptMsg, <<>>)

\* lines 417-428: the text the pipeline holds after its call of summarize_transcript
SummaryOf(r) == IF r.kind = "raise" THEN ErrorGeneratingSummaryPrefix \o r.text ELSE r.text

\* lines 430-444
SummarizedPodcast(entry, transcript, summary) ==
  IF SummaryUsable(summary)
  THEN PodcastData(entry, transcript, summary, extract_key_topics(transcript))
  ELSE PodcastData(entry, transcript, SummaryApiErrorMsg, <<>>)

\* entries of the call log: a time.sleep, or a call with what it returned
LogSleep(secs) == [fn |-> "sleep", video |-> None, secs |-> secs, result |-> <<>>]
LogCall(fn, video, result) == [fn |-> fn, video |-> video, secs |-> 0, result |-> result]

\* ------------------------------------------------------------------------
\* The channels, caption tracks, downloads and settings the pipeline is run on
\* ------------------------------------------------------------------------
ListingLen == 25
CueCount == 4
MatchPositions == {2, 9, 15, 16, 21}

BackgroundKinds ==
  <<"old", "nodate", "notitle", "noid", "raise", "noinfo", "notdict", "baddate",
    "ts_old", "future">>

TitleOf(pos) == <<"E", "p", " ">> \o IntToStr(pos)

\* what the listing and the metadata lookup hold for the entry at position pos
EntryAt(kind, pos) ==
  [ none |-> kind = "none",
    dict |-> kind # "notdict",
    id |-> IF kind = "noid" THEN None ELSE pos,
    info |-> IF kind = "raise" THEN "raise" ELSE IF kind = "noinfo" THEN "none" ELSE "ok",
    title |-> IF kind = "notitle" THEN <<>> ELSE TitleOf(pos),
    upload_date |->
      IF kind = "in" THEN start_date + (pos % (WindowDays + 1))
      ELSE IF kind = "old" THEN start_date - 1
      ELSE IF kind = "future" THEN end_date + 1
      ELSE IF kind = "baddate" THEN BadDate
      ELSE IF kind \in {"nodate", "ts_in", "ts_old"} THEN None
      ELSE end_date,
    timestamp |->
      IF kind = "ts_in" THEN start_date
      ELSE IF kind = "ts_old" THEN start_date - 1
      ELSE IF kind = "nodate" THEN 0
      ELSE None,
    duration |-> 10 * pos,
    view_count |-> pos ]

KindAt(inset, pos) ==
  IF pos \in inset THEN (IF pos % 2 = 0 THEN "in" ELSE "ts_in")
  ELSE BackgroundKinds[((pos - 1) % Len(BackgroundKinds)) + 1]

EntriesOf(inset, n) == [pos \in 1..n |-> EntryAt(KindAt(inset, pos), pos)]

\* a listing: the flat extraction result, with a None entry in front
DictListing(inset, n) ==
  [ status |-> "dict", has_id |-> FALSE, self |-> EntryAt("none", 0),
    entries |-> <<EntryAt("none", 0)>> \o EntriesOf(inset, n) ]

Listings ==
  { DictListing(inset, ListingLen) : inset \in SUBSET MatchPositions }
  \cup { DictListing({}, 0),
         [DictListing({}, 0) EXCEPT !.status = "raise"],
         [DictListing({}, 0) EXCEPT !.status = "none"],
         [DictListing({}, 0) EXCEPT !.has_id = TRUE, !.self = EntryAt("in", 1)] }

NoTracks == [l \in {} |-> <<>>]
ExtSrv == <<"s", "r", "v", "1">>
UrlVtt == <<"u", "?", "f", "m", "t", "=", "v", "t", "t">>
UrlSrv == <<"u", "?", "f", "m", "t", "=", "s", "r", "v", "1">>
FmtVtt == [ext |-> StrVtt, url |-> UrlVtt]
FmtSrv == [ext |-> ExtSrv, url |-> UrlSrv]
FmtNoUrl == [ext |-> StrVtt, url |-> <<>>]
Tracks(langs, formats) == [l \in langs |-> formats]

\* <<subtitles, automatic_captions>>
CaptionCases ==
  { <<NoTracks, NoTracks>>,
    <<Tracks({"fr"}, <<FmtVtt>>), Tracks({"de", "fr"}, <<FmtSrv, FmtVtt>>)>>,
    <<NoTracks, Tracks({"en-IN", "hi"}, <<FmtVtt>>)>>,
    <<Tracks({"en"}, <<FmtSrv, FmtVtt>>), NoTracks>>,
    <<Tracks({"fr"}, <<FmtVtt>>), Tracks({"en-US", "en-GB"}, <<FmtSrv>>)>>,
    <<Tracks({"en-GB"}, <<>>), Tracks({"en"}, <<FmtVtt>>)>>,
    <<Tracks({"en-US"}, <<FmtNoUrl>>), NoTracks>> }

CueTiming ==
  <<"0", "0", ":", "0", "1", ".", "0", "0", "0", " ", "-", "-", ">", " ",
    "0", "0", ":", "0", "2", ".", "0", "0", "0">>
VttHeader == StrWebvtt \o <<"\n", "\n">>
VttCue(text) == CueTiming \o <<"\n">> \o text \o <<"\n", "\n">>
VttOf(cues) == VttHeader \o Concat([k \in 1..Len(cues) |-> VttCue(cues[k])])
TaggedCue ==
  <<"<", "c", ">">> \o SentenceA \o <<"<", "/", "c", ">", "\n", " ">> \o SentenceC
    \o <<" ", "\n", "<", "b", ">", "<", "/", "b", ">">>
VttFiles ==
  { VttOf(Repeat(SentenceA, CueCount)),
    VttOf(<<SentenceB>>),
    VttOf(Repeat(SentenceC, CueCount)),
    VttOf(<<SentenceA, SentenceA, SubSeq(SentenceA, 1, 14)>>),
    StrNote \o <<" ", "x", "\n">> \o VttOf(Repeat(TaggedCue, CueCount)),
    VttOf(Repeat(SentenceA \o <<" ">> \o SentenceB, CueCount)) \o CueTiming,
    <<>> }

ReasonForbidden == StrForbidden
ReasonNotFound == <<"N", "o", "t", " ", "F", "o", "u", "n", "d">>
ErrTimedOut == <<"t", "i", "m", "e", "d", " ", "o", "u", "t">>
ErrUnavailable ==
  <<"V", "i", "d", "e", "o", " ", "u", "n", "a", "v", "a", "i", "l", "a", "b", "l", "e">>

DownloadOk(content) ==
  [kind |-> "ok", code |-> 0, msg |-> <<>>, file |-> [readable |-> TRUE, content |-> content]]
DownloadFails(kind, code, msg) ==
  [kind |-> kind, code |-> code, msg |-> msg, file |-> [readable |-> FALSE, content |-> msg]]
Downloads ==
  { DownloadOk(v) : v \in VttFiles }
  \cup { [DownloadOk(<<>>) EXCEPT !.file = [readable |-> FALSE, content |-> ErrTimedOut]],
         DownloadFails("http", 429, StrTooManyRequests),
         DownloadFails("http", 403, ReasonForbidden),
         DownloadFails("http", 404, ReasonNotFound),
         DownloadFails("other", 0, ErrTimedOut) }

WhisperOutcomes ==
  { [kind |-> "text", text |-> Join(Repeat(SentenceA, CueCount), <<" ">>)],
    [kind |-> "text", text |-> SentenceB],
    [kind |-> "raise", text |-> ErrServer],
    [kind |-> "raise", text |-> ErrDownload] }

DefaultTr ==
  [ info |-> "ok", err |-> <<>>, subtitles |-> NoTracks, automatic_captions |-> NoTracks,
    download |-> DownloadOk(<<>>),
    whisper |-> [kind |-> "raise", text |-> ErrServer] ]

HasEnglish(caps) == FirstEnglish(caps[1]) # "" \/ FirstEnglish(caps[2]) # ""

EnglishManual == <<Tracks({"en"}, <<FmtSrv, FmtVtt>>), NoTracks>>
OnlyFrench == <<Tracks({"fr"}, <<FmtVtt>>), Tracks({"de", "fr"}, <<FmtSrv, FmtVtt>>)>>
WithCaptions(caps, dl) ==
  [DefaultTr EXCEPT !.subtitles = caps[1], !.automatic_captions = caps[2], !.download = dl]

\* what the caption lookup, the subtitle download and Whisper do for one video:
\* every caption case, and every download for the manual English track
YoutubeTrCases ==
  { [DefaultTr EXCEPT !.info = "none"],
    [DefaultTr EXCEPT !.info = "raise", !.err = ErrUnavailable],
    [DefaultTr EXCEPT !.info = "raise", !.err = Err429] }
  \cup { WithCaptions(caps, DownloadOk(VttOf(Repeat(SentenceA, CueCount)))) :
           caps \in CaptionCases }
  \cup { WithCaptions(EnglishManual, dl) : dl \in Downloads }
WhisperTrCases == { [DefaultTr EXCEPT !.whisper = w] : w \in WhisperOutcomes }

\* the smaller family the second and third video of a channel are run on
LaterTrCases ==
  { WithCaptions(OnlyFrench, DownloadOk(<<>>)),
    WithCaptions(EnglishManual, DownloadOk(VttOf(Repeat(SentenceA, CueCount)))),
    WithCaptions(EnglishManual, DownloadOk(VttOf(<<SentenceB>>))) }

\* k: the number of videos of the channel already processed
TrCases(settings, k) ==
  IF settings.transcription = "openai_whisper" THEN WhisperTrCases
  ELSE IF settings.transcription = "skip" THEN {DefaultTr}
  ELSE IF k = 0 THEN YoutubeTrCases
  ELSE LaterTrCases

YtSettings ==
  { [transcription |-> "youtube", whisper_key |-> FALSE, method |-> "gemini",
     api_key |-> TRUE, genai |-> TRUE, openai |-> FALSE, yt_dlp |-> TRUE],
    [transcription |-> "<absent>", whisper_key |-> FALSE, method |-> "none",
     api_key |-> FALSE, genai |-> FALSE, openai |-> FALSE, yt_dlp |-> TRUE],
    [transcription |-> "openai_whisper", whisper_key |-> TRUE, method |-> "openai_gpt",
     api_key |-> TRUE, genai |-> FALSE, openai |-> TRUE, yt_dlp |-> TRUE],
    [transcription |-> "skip", whisper_key |-> FALSE, method |-> "gemini",
     api_key |-> TRUE, genai |-> TRUE, openai |-> FALSE, yt_dlp |-> TRUE],
    [transcription |-> "youtube", whisper_key |-> FALSE, method |-> "gemini",
     api_key |-> TRUE, genai |-> TRUE, openai |-> FALSE, yt_dlp |-> FALSE] }

PipelineOutcomes(k) ==
  { o \in OutcomeSeqs :
      \A j \in DOMAIN o :
        o[j] \in { [kind |-> "text", text |-> ProviderText],
                   [kind |-> "raise", text |-> Err429] }
                 \cup (IF k = 0 THEN { [kind |-> "text", text |-> <<>>],
                                       [kind |-> "raise", text |-> ErrServer] }
                       ELSE {}) }

\* ------------------------------------------------------------------------
\* The collected items the ranking is run on
\* ------------------------------------------------------------------------
MaxItems == 24
RankPatterns == 1..4

\* whether the k-th collected item of a pattern is a reel
PatternIsReel(pat, k) ==
  IF pat = 1 THEN TRUE
  ELSE IF pat = 2 THEN FALSE
  ELSE IF pat = 3 THEN k % 2 = 0
  ELSE k % 3 # 0

RankRaw(pat, k) ==
  [ typename |-> IF PatternIsReel(pat, k) THEN "GraphVideo"
                 ELSE IF k % 5 = 0 THEN "GraphSidecar" ELSE "GraphImage",
    is_video |-> PatternIsReel(pat, k),
    likes |-> (k + pat) % 3, comments |-> k % 2,
    mediacount |-> NoAttr, sidecar |-> None,
    video_view_count |-> IF ~PatternIsReel(pat, k) \/ k % 4 = 0 THEN None
                         ELSE (k * (pat + 1)) % 3,
    view_count |-> None, views |-> None, is_reel_attr |-> "absent",
    video_duration |-> IF PatternIsReel(pat, k) THEN 30 ELSE NoAttr,
    url |-> <<"cdn", "p", "x">>, shortcode |-> k ]

\* the account the k-th of n collected items belongs to: account order
AccountOf(k, n) == (((k - 1) * Len(competitor_accounts)) \div n) + 1

CollectedItems(pat, n) ==
  [k \in 1..n |-> ClassifyPost(competitor_accounts[AccountOf(k, n)], RankRaw(pat, k),
                               DateAt("in", k))]

AccountsWithItems(items) ==
  SelectSeq(competitor_accounts, LAMBDA a : \E k \in 1..Len(items) : items[k].username = a)
AccountsWithoutItems(items) ==
  LET none == SelectSeq(competitor_accounts,
                        LAMBDA a : \A k \in 1..Len(items) : items[k].username # a)
  IN  [k \in 1..Len(none) |-> [account |-> none[k], reason |-> "no posts found"]]

\* ------------------------------------------------------------------------
\* YouTubePodcastAnalyzer.analyze_competitors and calculate_stats
\* ------------------------------------------------------------------------
NumChannels == 2

\* self.competitor_channels, a channel written as its name
competitor_channels == [k \in 1..NumChannels |-> k]

RECURSIVE SumDurations(_)
SumDurations(ps) == IF ps = <<>> THEN 0 ELSE Head(ps).duration + SumDurations(Tail(ps))

\* lines 940-956
calculate_stats(ps) ==
  IF ps = <<>>
  THEN [total_podcasts |-> 0, total_duration |-> 0, channels_analyzed |-> 0]
  ELSE [ total_podcasts |-> Len(ps),
         total_duration |-> SumDurations(ps),
         channels_analyzed |-> Cardinality({ps[k].channel : k \in 1..Len(ps)}) ]

\* line 127: all_podcasts.sort(key=published_date, reverse=True)
SortByPublishedDate(ps) ==
  Items(SortDesc([k \in 1..Len(ps) |-> <<ps[k].published_date, ps[k]>>]))

\* lines 129-136
ChannelResults(ps) ==
  [podcasts |-> SortByPublishedDate(ps), stats |-> calculate_stats(SortByPublishedDate(ps))]

\* what fetch_podcasts_from_channel returns for a channel: up to two entries
ChannelPodcast(ch, k, v) ==
  [ PodcastData(EntryAt("in", 10 * ch + v * k), SentenceB, SummaryNoTranscriptMsg, <<>>)
      EXCEPT !.channel = ch ]
ChannelFetches(ch) ==
  { [k \in 1..n |-> ChannelPodcast(ch, k, v)] : n \in 0..2, v \in 1..2 }

\* ------------------------------------------------------------------------
\* The subtitle files parse_vtt_subtitle is run on, written from their cues
\* ------------------------------------------------------------------------
MaxCues == 3

\* a piece of a cue line: text, or inline markup
Txt(x) == [tag |-> FALSE, s |-> x]
Tag(x) == [tag |-> TRUE, s |-> x]

\* the cues: each a sequence of lines, each line a sequence of pieces
CuePlain == << <<Txt(SentenceA)>> >>
CueTwoLines == << <<Txt(SentenceC)>>, <<Txt(SentenceB)>> >>
CueTagged ==
  << << Tag(<<"<","c",">">>), Txt(<<"A","l","p","h","a">>), Tag(<<"<","/","c",">">>), Txt(<<" ","b","e","t","a">>), Tag(<<"<","0","0",":","0","0",":","0","1",".","5","0","0",">">>), Txt(<<" ","g","a","m","m","a",".">>) >> >>
CueMarkupLine == << <<Tag(<<"<","b",">">>), Tag(<<"<","/","b",">">>)>>, <<Tag(<<"<","v"," ","B","o","b",">">>), Txt(SentenceB)>> >>
CueKinds == {CuePlain, CueTwoLines, CueTagged, CueMarkupLine}

RECURSIVE SeqsUpTo(_, _)
SeqsUpTo(S, n) ==
  IF n = 0 THEN {<<>>}
  ELSE SeqsUpTo(S, n - 1) \cup {Append(q, x) : q \in {r \in SeqsUpTo(S, n - 1) : Len(r) = n - 1}, x \in S}

\* ids: cue identifiers; notes: a comment block before each cue; meta: header
\* metadata lines; settings: cue settings after the timestamps
VttDocs ==
  [ cues : SeqsUpTo(CueKinds, MaxCues), ids : BOOLEAN, notes : BOOLEAN, meta : BOOLEAN,
    settings : BOOLEAN ]

MetaLines == 
  <<"\n", "K", "i", "n", "d", ":", " ", "c", "a", "p", "t", "i", "o", "n", "s", "\n", "L", "a", "n", "g", "u", "a", "g", "e", ":", " ", "e", "n">>
NoteBlock == 
  <<"N", "O", "T", "E", " ", "a", " ", "c", "o", "m", "m", "e", "n", "t", "\n", "t", "h", "a", "t", " ", "g", "o", "e", "s", " ", "o", "n", "\n", "\n">>
CueSettings == <<" ","a","l","i","g","n",":","s","t","a","r","t"," ","p","o","s","i","t","i","o","n",":","0",
  "%">>

RenderLine(line) == Concat([k \in 1..Len(line) |-> line[k].s]) \o <<"\n">>
RenderCue(doc, k) ==
  (IF doc.notes THEN NoteBlock ELSE <<>>)
  \o (IF doc.ids THEN IntToStr(k) \o <<"\n">> ELSE <<>>)
  \o CueTiming \o (IF doc.settings THEN CueSettings ELSE <<>>) \o <<"\n">>
  \o Concat([j \in 1..Len(doc.cues[k]) |-> RenderLine(doc.cues[k][j])])
  \o <<"\n">>
RenderVtt(doc) ==
  StrWebvtt \o (IF doc.meta THEN MetaLines ELSE <<>>) \o <<"\n", "\n">>
  \o Concat([k \in 1..Len(doc.cues) |-> RenderCue(doc, k)])

\* ------------------------------------------------------------------------
\* app.py, analyze: the stats of the response
\* ------------------------------------------------------------------------
RECURSIVE SumOf(_)
SumOf(ns) == IF ns = <<>> THEN 0 ELSE Head(ns) + SumOf(Tail(ns))

CountOf(items, Test(_)) == Len(SelectSeq(items, Test))

\* round(a / b) for a >= 0, b > 0: to the nearest integer, a tie to the even one
RoundDiv(a, b) ==
  LET q == a \div b
      r == a % b
  IN  IF 2 * r < b THEN q
      ELSE IF 2 * r > b THEN q + 1
      ELSE IF q % 2 = 0 THEN q ELSE q + 1

\* p.get("views", 0) or 0 for p in reels if p.get("views")
TruthyViews(p) == IF p.views \notin {None, 0} THEN p.views ELSE 0

\* lines 40-101: reels and posts are the two ranked lists of the result (at
\* most 10 items each), all_posts is everything collected
Stats(res) ==
  LET reels == res.reels
      posts == res.posts
      all == res.all
  IN  IF all = <<>>
      THEN [ total_posts |-> 0, average_engagement |-> 0, top_engagement |-> 0,
             accounts_analyzed |-> 0, carousel_count |-> 0, photo_count |-> 0,
             reel_count |-> 0, video_count |-> 0, total_views |-> 0 ]
      ELSE [ total_posts |-> Len(all),
             average_engagement |->
               RoundDiv(SumOf([k \in 1..Len(all) |-> all[k].engagement]), Len(all)),
             top_engagement |->
               SortDesc([k \in 1..Len(all) |-> <<all[k].engagement, all[k]>>])[1][1],
             accounts_analyzed |-> Cardinality({all[k].username : k \in 1..Len(all)}),
             carousel_count |-> CountOf(posts, LAMBDA p : p.is_carousel),
             photo_count |-> CountOf(posts, LAMBDA p : ~p.is_carousel /\ ~p.is_video),
             reel_count |-> Len(reels),
             video_count |-> CountOf(posts, LAMBDA p : p.is_video /\ ~p.is_reel),
             total_views |-> SumOf([k \in 1..Len(reels) |-> TruthyViews(reels[k])]) ]

\* ------------------------------------------------------------------------
\* The transcripts extract_key_topics is run on: an opening, then up to
\* MaxPicks words
\* ------------------------------------------------------------------------
MaxPicks == 3

\* 59 characters without an uppercase letter
TopicFiller ==
  <<"t","h","e"," ","q","u","i","c","k"," ","b","r","o","w","n"," ","f","o","x"," ","j","u","m",
  "p","s"," ","o","v","e","r"," ","t","h","e"," ","l","a","z","y"," ","d","o","g"," ","a","g",
  "a","i","n"," ","a","n","d"," ","a","g","a","i","n">>

\* four words that pass the filter, then the filler
TopicOpening ==
  <<"M","o","n","d","a","y"," ","T","u","e","s","d","a","y"," ","F","r","i","d","a","y"," ","S",
  "u","n","d","a","y"," ">> \o TopicFiller

TopicWords ==
  { <<"Y","e","s",".">>, <<"A","l","p","h","a">>, <<"A","l","p","h","a",",">>, <<"B","e","t","a">>,
    <<"b","e","t","a">>, <<"G","o","!">>, <<"T","u","e","s","d","a","y">> }

TopicTranscripts ==
  { Join(<<opening>> \o picks, <<" ">>) :
      opening \in {<<>>, TopicFiller, TopicOpening}, picks \in SeqsUpTo(TopicWords, MaxPicks) }

\* ========================================================================
\* State machines
\* ========================================================================
vars == <<igVars, clVars, smVars, ytVars, chVars, vttVars, apiVars, tpVars>>

\* ------------------------------------------------------------------------
\* SpecIG: one run of CompetitorAnalyzer.analyze_competitors
\* ------------------------------------------------------------------------
IGInit ==
  /\ igpc = "loop"
  /\ acct_i = 0
  /\ all_posts = <<>>
  /\ successful_accounts = <<>>
  /\ failed_accounts = <<>>
  /\ sleeps = <<>>
  /\ lastFeed = NoFeed
  /\ lastScan = NoScan
  /\ scanLog = <<>>
  /\ results = <<>>
  /\ cpost = <<>>
  /\ citem = <<>>
  /\ sm_transcript = <<>>
  /\ sm_settings = <<>>
  /\ sm_outcomes = <<>>
  /\ sm_result = <<>>
  /\ ytpc = "idle"
  /\ yt_settings = <<>>
  /\ listing = <<>>
  /\ discovery = <<>>
  /\ vid_k = 0
  /\ cur_transcript = <<>>
  /\ podcasts = <<>>
  /\ yt_log = <<>>
  /\ lastTranscribe = <<>>
  /\ chpc = "idle"
  /\ ch_i = 0
  /\ all_podcasts = <<>>
  /\ fetched_channels = <<>>
  /\ yt_results = <<>>
  /\ vtt_doc = <<>>
  /\ vtt_file = <<>>
  /\ vtt_text = <<>>
  /\ stats = <<>>
  /\ tp_transcript = <<>>
  /\ tp_topics = <<>>

\* one iteration of "for i, account in enumerate(self.competitor_accounts)"
AnalyzeAccount ==
  /\ igpc = "loop"
  /\ acct_i < Len(competitor_accounts)
  /\ \E feed \in Feeds :
       LET account == competitor_accounts[acct_i + 1]
           scan == ScanTable[account][feed]
       IN  /\ lastFeed' = feed
           /\ lastScan' = scan
           /\ scanLog' = Append(scanLog, scan.raised)
           /\ all_posts' = ExtendAllPosts(all_posts, scan)
           /\ successful_accounts' = NextSuccessful(successful_accounts, account, scan)
           /\ failed_accounts' = NextFailed(failed_accounts, account, scan)
           /\ sleeps' = sleeps \o SleepsOfIteration(acct_i)
  /\ acct_i' = acct_i + 1
  /\ UNCHANGED <<igpc, results>>
  /\ UNCHANGED <<clVars, smVars, ytVars, chVars, vttVars, apiVars, tpVars>>

\* after the loop: split, sort, truncate, return (lines 435-453)
RankAndReturn ==
  /\ igpc = "loop"
  /\ acct_i = Len(competitor_accounts)
  /\ igpc' = "ranked"
  /\ results' = << [reels |-> RankReels(all_posts), posts |-> RankPosts(all_posts),
                    all |-> all_posts] >>
  /\ UNCHANGED <<acct_i, all_posts, successful_accounts, failed_accounts, sleeps,
                 lastFeed, lastScan, scanLog>>
  /\ UNCHANGED <<clVars, smVars, ytVars, chVars, vttVars, apiVars, tpVars>>

IGNext == AnalyzeAccount \/ RankAndReturn

SpecIG == IGInit /\ [][IGNext]_vars

\* ------------------------------------------------------------------------
\* SpecRank: the ranking at the end of analyze_competitors, on the state the
\* account loop leaves behind when the accounts yielded a given item list
\* ------------------------------------------------------------------------
RankInit ==
  /\ igpc = "loop"
  /\ acct_i = Len(competitor_accounts)
  /\ all_posts \in { CollectedItems(pat, n) : pat \in RankPatterns, n \in 0..MaxItems }
  /\ successful_accounts = AccountsWithItems(all_posts)
  /\ failed_accounts = AccountsWithoutItems(all_posts)
  /\ sleeps = Concat([k \in 1..Len(competitor_accounts) |-> SleepsOfIteration(k - 1)])
  /\ lastFeed = NoFeed
  /\ lastScan = NoScan
  /\ scanLog = [k \in 1..Len(competitor_accounts) |-> "none"]
  /\ results = <<>>
  /\ cpost = <<>>
  /\ citem = <<>>
  /\ sm_transcript = <<>>
  /\ sm_settings = <<>>
  /\ sm_outcomes = <<>>
  /\ sm_result = <<>>
  /\ ytpc = "idle"
  /\ yt_settings = <<>>
  /\ listing = <<>>
  /\ discovery = <<>>
  /\ vid_k = 0
  /\ cur_transcript = <<>>
  /\ podcasts = <<>>
  /\ yt_log = <<>>
  /\ lastTranscribe = <<>>
  /\ chpc = "idle"
  /\ ch_i = 0
  /\ all_podcasts = <<>>
  /\ fetched_channels = <<>>
  /\ yt_results = <<>>
  /\ vtt_doc = <<>>
  /\ vtt_file = <<>>
  /\ vtt_text = <<>>
  /\ stats = <<>>
  /\ tp_transcript = <<>>
  /\ tp_topics = <<>>

SpecRank == RankInit /\ [][RankAndReturn]_vars

\* ------------------------------------------------------------------------
\* SpecClassify: the classification of one in-window post
\* ------------------------------------------------------------------------
ClInit ==
  /\ cpost \in { <<p>> : p \in RawPosts \cup FailingPosts }
  /\ citem = <<>>
  /\ igpc = "idle"
  /\ acct_i = 0
  /\ all_posts = <<>>
  /\ successful_accounts = <<>>
  /\ failed_accounts = <<>>
  /\ sleeps = <<>>
  /\ lastFeed = NoFeed
  /\ lastScan = NoScan
  /\ scanLog = <<>>
  /\ results = <<>>
  /\ sm_transcript = <<>>
  /\ sm_settings = <<>>
  /\ sm_outcomes = <<>>
  /\ sm_result = <<>>
  /\ ytpc = "idle"
  /\ yt_settings = <<>>
  /\ listing = <<>>
  /\ discovery = <<>>
  /\ vid_k = 0
  /\ cur_transcript = <<>>
  /\ podcasts = <<>>
  /\ yt_log = <<>>
  /\ lastTranscribe = <<>>
  /\ chpc = "idle"
  /\ ch_i = 0
  /\ all_podcasts = <<>>
  /\ fetched_channels = <<>>
  /\ yt_results = <<>>
  /\ vtt_doc = <<>>
  /\ vtt_file = <<>>
  /\ vtt_text = <<>>
  /\ stats = <<>>
  /\ tp_transcript = <<>>
  /\ tp_topics = <<>>

Classify ==
  /\ cpost # <<>>
  /\ citem = <<>>
  /\ citem' = << ClassifyPost(1, cpost[1], start_date) >>
  /\ UNCHANGED cpost
  /\ UNCHANGED <<igVars, smVars, ytVars, chVars, vttVars, apiVars, tpVars>>

SpecClassify == ClInit /\ [][Classify]_vars

\* ------------------------------------------------------------------------
\* SpecSumm: one call of summarize_transcript
\* ------------------------------------------------------------------------
SmInit ==
  /\ sm_transcript \in { <<t>> : t \in Transcripts }
  /\ sm_settings \in { <<st>> : st \in Settings }
  /\ sm_outcomes \in { <<o>> : o \in OutcomeSeqs }
  /\ sm_result = <<>>
  /\ igpc = "idle"
  /\ acct_i = 0
  /\ all_posts = <<>>
  /\ successful_accounts = <<>>
  /\ failed_accounts = <<>>
  /\ sleeps = <<>>
  /\ lastFeed = NoFeed
  /\ lastScan = NoScan
  /\ scanLog = <<>>
  /\ results = <<>>
  /\ cpost = <<>>
  /\ citem = <<>>
  /\ ytpc = "idle"
  /\ yt_settings = <<>>
  /\ listing = <<>>
  /\ discovery = <<>>
  /\ vid_k = 0
  /\ cur_transcript = <<>>
  /\ podcasts = <<>>
  /\ yt_log = <<>>
  /\ lastTranscribe = <<>>
  /\ chpc = "idle"
  /\ ch_i = 0
  /\ all_podcasts = <<>>
  /\ fetched_channels = <<>>
  /\ yt_results = <<>>
  /\ vtt_doc = <<>>
  /\ vtt_file = <<>>
  /\ vtt_text = <<>>
  /\ stats = <<>>
  /\ tp_transcript = <<>>
  /\ tp_topics = <<>>

Summarize ==
  /\ sm_transcript # <<>>
  /\ sm_result = <<>>
  /\ sm_result' = << summarize_transcript(sm_transcript[1], sm_settings[1], sm_outcomes[1]) >>
  /\ UNCHANGED <<sm_transcript, sm_settings, sm_outcomes>>
  /\ UNCHANGED <<igVars, clVars, ytVars, chVars, vttVars, apiVars, tpVars>>

SpecSumm == SmInit /\ [][Summarize]_vars

\* ------------------------------------------------------------------------
\* SpecYT: one call of YouTubePodcastAnalyzer.fetch_podcasts_from_channel
\* ------------------------------------------------------------------------
YTInit ==
  /\ ytpc = "start"
  /\ yt_settings \in YtSettings
  /\ listing \in Listings
  /\ discovery = <<>>
  /\ vid_k = 0
  /\ cur_transcript = <<>>
  /\ podcasts = <<>>
  /\ yt_log = <<>>
  /\ lastTranscribe = <<>>
  /\ igpc = "idle"
  /\ acct_i = 0
  /\ all_posts = <<>>
  /\ successful_accounts = <<>>
  /\ failed_accounts = <<>>
  /\ sleeps = <<>>
  /\ lastFeed = NoFeed
  /\ lastScan = NoScan
  /\ scanLog = <<>>
  /\ results = <<>>
  /\ cpost = <<>>
  /\ citem = <<>>
  /\ sm_transcript = <<>>
  /\ sm_settings = <<>>
  /\ sm_outcomes = <<>>
  /\ sm_result = <<>>
  /\ chpc = "idle"
  /\ ch_i = 0
  /\ all_podcasts = <<>>
  /\ fetched_channels = <<>>
  /\ yt_results = <<>>
  /\ vtt_doc = <<>>
  /\ vtt_file = <<>>
  /\ vtt_text = <<>>
  /\ stats = <<>>
  /\ tp_transcript = <<>>
  /\ tp_topics = <<>>

\* lines 149-312: the listing and the discovery loop
FetchChannel ==
  /\ ytpc = "start"
  /\ LET entries == ListedEntries(listing)
         found == Discover(entries, max_podcasts_per_channel, MaxVideosToCheck)
         listed == yt_settings.yt_dlp /\ entries # <<>>
     IN  /\ discovery' = IF listed THEN <<found>> ELSE <<>>
         /\ ytpc' = IF listed /\ found.matching_videos # <<>> THEN "transcribe"
                    ELSE "returned"
  /\ UNCHANGED <<yt_settings, listing, vid_k, cur_transcript, podcasts, yt_log,
                 lastTranscribe>>
  /\ UNCHANGED <<igVars, clVars, smVars, chVars, vttVars, apiVars, tpVars>>

\* lines 315-409 and 445-464 for the next matching video
TranscribeVideo ==
  /\ ytpc = "transcribe"
  /\ vid_k < Len(discovery[1].matching_videos)
  /\ \E tr \in TrCases(yt_settings, vid_k) :
       LET entry == discovery[1].matching_videos[vid_k + 1]
           transcript == transcribe_video(VideoUrl(entry), yt_settings, tr)
           called == yt_log \o <<LogSleep(VideoDelay),
                                  LogCall("transcribe_video", entry.id, transcript)>>
       IN  /\ lastTranscribe' = << [video |-> entry.id, tr |-> tr, result |-> transcript,
                                  attempts |-> TranscribePasses(yt_settings, tr)] >>
           /\ IF SkipsVideo(transcript)
              THEN /\ vid_k' = vid_k + 1
                   /\ yt_log' = called
                   /\ UNCHANGED <<ytpc, cur_transcript, podcasts>>
              ELSE IF Summarizable(transcript)
              THEN /\ ytpc' = "summarize"
                   /\ cur_transcript' = <<transcript>>
                   /\ yt_log' = Append(called, LogSleep(SummaryDelay))
                   /\ UNCHANGED <<vid_k, podcasts>>
              ELSE /\ podcasts' = Append(podcasts, NoTranscriptPodcast(entry, transcript))
                   /\ vid_k' = vid_k + 1
                   /\ yt_log' = called
                   /\ UNCHANGED <<ytpc, cur_transcript>>
  /\ UNCHANGED <<yt_settings, listing, discovery>>
  /\ UNCHANGED <<igVars, clVars, smVars, chVars, vttVars, apiVars, tpVars>>

\* lines 410-444 and 464 for the video whose transcript was obtained
SummarizeVideo ==
  /\ ytpc = "summarize"
  /\ \E outcomes \in PipelineOutcomes(vid_k) :
       LET entry == discovery[1].matching_videos[vid_k + 1]
           transcript == cur_transcript[1]
           summary == SummaryOf(summarize_transcript(transcript, yt_settings, outcomes))
           called == Append(yt_log, LogCall("summarize_transcript", entry.id, summary))
       IN  /\ podcasts' = Append(podcasts, SummarizedPodcast(entry, transcript, summary))
           /\ yt_log' = IF SummaryUsable(summary)
                        THEN Append(called, LogCall("extract_key_topics", entry.id, <<>>))
                        ELSE called
  /\ vid_k' = vid_k + 1
  /\ ytpc' = "transcribe"
  /\ cur_transcript' = <<>>
  /\ UNCHANGED <<yt_settings, listing, discovery, lastTranscribe>>
  /\ UNCHANGED <<igVars, clVars, smVars, chVars, vttVars, apiVars, tpVars>>

\* line 474
ReturnPodcasts ==
  /\ ytpc = "transcribe"
  /\ vid_k = Len(discovery[1].matching_videos)
  /\ ytpc' = "returned"
  /\ UNCHANGED <<yt_settings, listing, discovery, vid_k, cur_transcript, podcasts,
                 yt_log, lastTranscribe>>
  /\ UNCHANGED <<igVars, clVars, smVars, chVars, vttVars, apiVars, tpVars>>

YTNext == FetchChannel \/ TranscribeVideo \/ SummarizeVideo \/ ReturnPodcasts

SpecYT == YTInit /\ [][YTNext]_vars

\* ------------------------------------------------------------------------
\* SpecLoops: one run of either analyzer's analyze_competitors; the analyzers
\* share no state, a behaviour is a run of one of them
\* ------------------------------------------------------------------------
LoopsInit ==
  /\ \/ igpc = "loop" /\ chpc = "idle"
     \/ igpc = "idle" /\ chpc = "loop"
  /\ acct_i = 0
  /\ all_posts = <<>>
  /\ successful_accounts = <<>>
  /\ failed_accounts = <<>>
  /\ sleeps = <<>>
  /\ lastFeed = NoFeed
  /\ lastScan = NoScan
  /\ scanLog = <<>>
  /\ results = <<>>
  /\ ch_i = 0
  /\ all_podcasts = <<>>
  /\ fetched_channels = <<>>
  /\ yt_results = <<>>
  /\ cpost = <<>>
  /\ citem = <<>>
  /\ sm_transcript = <<>>
  /\ sm_settings = <<>>
  /\ sm_outcomes = <<>>
  /\ sm_result = <<>>
  /\ ytpc = "idle"
  /\ yt_settings = <<>>
  /\ listing = <<>>
  /\ discovery = <<>>
  /\ vid_k = 0
  /\ cur_transcript = <<>>
  /\ podcasts = <<>>
  /\ yt_log = <<>>
  /\ lastTranscribe = <<>>
  /\ vtt_doc = <<>>
  /\ vtt_file = <<>>
  /\ vtt_text = <<>>
  /\ stats = <<>>
  /\ tp_transcript = <<>>
  /\ tp_topics = <<>>

\* one iteration of "for channel_config in self.competitor_channels" (110-124)
AnalyzeChannel ==
  /\ chpc = "loop"
  /\ ch_i < Len(competitor_channels)
  /\ \E fetch \in ChannelFetches(competitor_channels[ch_i + 1]) :
       /\ fetched_channels' = Append(fetched_channels, competitor_channels[ch_i + 1])
       /\ all_podcasts' = all_podcasts \o fetch
  /\ ch_i' = ch_i + 1
  /\ UNCHANGED <<chpc, yt_results>>
  /\ UNCHANGED <<igVars, clVars, smVars, ytVars, vttVars, apiVars, tpVars>>

\* after the loop: sort, stats, return (lines 126-136)
SortAndReturn ==
  /\ chpc = "loop"
  /\ ch_i = Len(competitor_channels)
  /\ chpc' = "returned"
  /\ all_podcasts' = SortByPublishedDate(all_podcasts)
  /\ yt_results' = << ChannelResults(all_podcasts) >>
  /\ UNCHANGED <<ch_i, fetched_channels>>
  /\ UNCHANGED <<igVars, clVars, smVars, ytVars, vttVars, apiVars, tpVars>>

LoopsNext == AnalyzeAccount \/ RankAndReturn \/ AnalyzeChannel \/ SortAndReturn

SpecLoops == LoopsInit /\ [][LoopsNext]_vars

\* ------------------------------------------------------------------------
\* SpecVtt: one call of parse_vtt_subtitle on a downloaded subtitle file
\* ------------------------------------------------------------------------
VttInit ==
  /\ vtt_doc \in { <<doc>> : doc \in VttDocs }
  /\ vtt_file = << [readable |-> TRUE, content |-> RenderVtt(vtt_doc[1])] >>
  /\ vtt_text = <<>>
  /\ igpc = "idle"
  /\ acct_i = 0
  /\ all_posts = <<>>
  /\ successful_accounts = <<>>
  /\ failed_accounts = <<>>
  /\ sleeps = <<>>
  /\ lastFeed = NoFeed
  /\ lastScan = NoScan
  /\ scanLog = <<>>
  /\ results = <<>>
  /\ cpost = <<>>
  /\ citem = <<>>
  /\ sm_transcript = <<>>
  /\ sm_settings = <<>>
  /\ sm_outcomes = <<>>
  /\ sm_result = <<>>
  /\ ytpc = "idle"
  /\ yt_settings = <<>>
  /\ listing = <<>>
  /\ discovery = <<>>
  /\ vid_k = 0
  /\ cur_transcript = <<>>
  /\ podcasts = <<>>
  /\ yt_log = <<>>
  /\ lastTranscribe = <<>>
  /\ chpc = "idle"
  /\ ch_i = 0
  /\ all_podcasts = <<>>
  /\ fetched_channels = <<>>
  /\ yt_results = <<>>
  /\ stats = <<>>
  /\ tp_transcript = <<>>
  /\ tp_topics = <<>>

ParseVtt ==
  /\ vtt_file # <<>>
  /\ vtt_text = <<>>
  /\ vtt_text' = << parse_vtt_subtitle(vtt_file[1]) >>
  /\ UNCHANGED <<vtt_doc, vtt_file>>
  /\ UNCHANGED <<igVars, clVars, smVars, ytVars, chVars, apiVars, tpVars>>

SpecVtt == VttInit /\ [][ParseVtt]_vars

\* ------------------------------------------------------------------------
\* SpecScan: one call of fetch_posts_from_account on a long upstream sequence
\* ------------------------------------------------------------------------
ScanInit ==
  /\ igpc = "scan"
  /\ lastFeed \in FloodFeeds \cup MalformedFeeds \cup Feeds
  /\ acct_i = 0
  /\ all_posts = <<>>
  /\ successful_accounts = <<>>
  /\ failed_accounts = <<>>
  /\ sleeps = <<>>
  /\ lastScan = NoScan
  /\ scanLog = <<>>
  /\ results = <<>>
  /\ cpost = <<>>
  /\ citem = <<>>
  /\ sm_transcript = <<>>
  /\ sm_settings = <<>>
  /\ sm_outcomes = <<>>
  /\ sm_result = <<>>
  /\ ytpc = "idle"
  /\ yt_settings = <<>>
  /\ listing = <<>>
  /\ discovery = <<>>
  /\ vid_k = 0
  /\ cur_transcript = <<>>
  /\ podcasts = <<>>
  /\ yt_log = <<>>
  /\ lastTranscribe = <<>>
  /\ chpc = "idle"
  /\ ch_i = 0
  /\ all_podcasts = <<>>
  /\ fetched_channels = <<>>
  /\ yt_results = <<>>
  /\ vtt_doc = <<>>
  /\ vtt_file = <<>>
  /\ vtt_text = <<>>
  /\ stats = <<>>
  /\ tp_transcript = <<>>
  /\ tp_topics = <<>>

FetchPosts ==
  /\ igpc = "scan"
  /\ igpc' = "scanned"
  /\ lastScan' = fetch_posts_from_account(1, lastFeed)
  /\ UNCHANGED <<acct_i, all_posts, successful_accounts, failed_accounts, sleeps, lastFeed,
                 scanLog, results>>
  /\ UNCHANGED <<clVars, smVars, ytVars, chVars, vttVars, apiVars, tpVars>>

SpecScan == ScanInit /\ [][FetchPosts]_vars

\* ------------------------------------------------------------------------
\* SpecApi: the analyze handler of app.py: analyze_competitors on the
\* collected items, then the stats
\* ------------------------------------------------------------------------
ApiStats ==
  /\ igpc = "ranked"
  /\ stats = <<>>
  /\ stats' = << Stats(results[1]) >>
  /\ UNCHANGED <<igVars, clVars, smVars, ytVars, chVars, vttVars, tpVars>>

SpecApi == RankInit /\ [][RankAndReturn \/ ApiStats]_vars

\* ------------------------------------------------------------------------
\* SpecTopics: one call of extract_key_topics
\* ------------------------------------------------------------------------
TopicsInit ==
  /\ tp_transcript \in { <<t>> : t \in TopicTranscripts }
  /\ tp_topics = <<>>
  /\ vtt_doc = <<>>
  /\ vtt_file = <<>>
  /\ vtt_text = <<>>
  /\ igpc = "idle"
  /\ acct_i = 0
  /\ all_posts = <<>>
  /\ successful_accounts = <<>>
  /\ failed_accounts = <<>>
  /\ sleeps = <<>>
  /\ lastFeed = NoFeed
  /\ lastScan = NoScan
  /\ scanLog = <<>>
  /\ results = <<>>
  /\ cpost = <<>>
  /\ citem = <<>>
  /\ sm_transcript = <<>>
  /\ sm_settings = <<>>
  /\ sm_outcomes = <<>>
  /\ sm_result = <<>>
  /\ ytpc = "idle"
  /\ yt_settings = <<>>
  /\ listing = <<>>
  /\ discovery = <<>>
  /\ vid_k = 0
  /\ cur_transcript = <<>>
  /\ podcasts = <<>>
  /\ yt_log = <<>>
  /\ lastTranscribe = <<>>
  /\ chpc = "idle"
  /\ ch_i = 0
  /\ all_podcasts = <<>>
  /\ fetched_channels = <<>>
  /\ yt_results = <<>>
  /\ stats = <<>>

ExtractTopics ==
  /\ tp_transcript # <<>>
  /\ tp_topics = <<>>
  /\ tp_topics' = << extract_key_topics(tp_transcript[1]) >>
  /\ UNCHANGED tp_transcript
  /\ UNCHANGED <<igVars, clVars, smVars, ytVars, chVars, vttVars, apiVars>>

SpecTopics == TopicsInit /\ [][ExtractTopics]_vars

\* ========================================================================
\* The claims
\* ========================================================================
EndsWith(s, t) ==
  Len(t) <= Len(s) /\ SubSeq(s, Len(s) - Len(t) + 1, Len(s)) = t

\* C1 (as stated): when an exception is raised during an account's scan after
\* in-window posts were collected, fetch_posts_from_account returns those
\* posts and they are in all_posts.
C1_PartialResultsKept ==
  (lastScan.raised # "none" /\ lastScan.collected # <<>>)
    => (lastScan.posts = lastScan.collected /\ EndsWith(all_posts, lastScan.collected))

\* C2 (as stated): on 3 in-window posts followed by 12 posts older than
\* start_date the scan ends having examined the 10th old post, the 13th post
\* yielded, and returns exactly 3 items.
C2_StopsAfterTenthOld ==
  (lastFeed.body = Repeat("in", 3) \o Repeat("old", 12) /\ lastFeed.term = "end")
    => (lastScan.examined = 3 + OldStreakLimit /\ Len(lastScan.posts) = 3)

\* C3: an account whose fetch raised is appended to failed_accounts, leaves
\* all_posts and successful_accounts as they were and leaves the loop running;
\* the run returns only after every configured account was fetched, with every
\* item of every successful account in "all".
C3_FailureIsolated ==
  /\ [][ (acct_i' = acct_i + 1 /\ lastScan'.raised # "none") =>
           /\ all_posts' = all_posts
           /\ successful_accounts' = successful_accounts
           /\ Len(failed_accounts') = Len(failed_accounts) + 1
           /\ failed_accounts'[Len(failed_accounts')].account = competitor_accounts[acct_i']
           /\ igpc' = "loop" ]_vars
  /\ [][ acct_i' = acct_i + 1 => SubSeq(all_posts', 1, Len(all_posts)) = all_posts ]_vars
  /\ [](igpc = "ranked" =>
          /\ Len(scanLog) = Len(competitor_accounts)
          /\ results[1].all = all_posts
          /\ \A a \in Range(successful_accounts) :
               \E k \in 1..Len(all_posts) : all_posts[k].username = a)

C3_Witness ==
  /\ igpc = "ranked"
  /\ scanLog[1] # "none"
  /\ competitor_accounts[1] \in { failed_accounts[k].account : k \in 1..Len(failed_accounts) }
  /\ competitor_accounts[Len(competitor_accounts)] \in Range(successful_accounts)
  /\ all_posts # <<>>

\* C4 (as stated): every classified item satisfies is_reel => is_video.
C4_ReelImpliesVideo ==
  citem # <<>> => (citem[1].is_reel => citem[1].is_video)

\* C5 (as stated): no classified item has both is_carousel and is_reel.
C5_CarouselReelExclusive ==
  citem # <<>> => ~(citem[1].is_carousel /\ citem[1].is_reel)

\* the last provider call made by the summarizer raised
ProviderFailed ==
  /\ sm_result # <<>>
  /\ sm_result[1].calls >= 1
  /\ sm_outcomes[1][sm_result[1].calls].kind = "raise"

\* C6 (as stated): when the provider raises a non-rate-limit error, or
\* rate-limit errors on every allowed attempt, the summarizer returns the
\* extractive summary of the first 5 sentences of the transcript.
C6_ProviderFailureFallsBack ==
  ProviderFailed =>
    /\ sm_result[1].kind = "return"
    /\ sm_result[1].text = Extractive(sm_transcript[1], 5)

\* C7 (as stated): summarize_transcript never raises and returns a non-empty
\* text, for every transcript, method and provider outcome.
C7_AlwaysReturnsText ==
  sm_result # <<>> => (sm_result[1].kind = "return" /\ sm_result[1].text # <<>>)

\* no provider is configured: the method names none, or the key or the
\* library of the provider it names is missing
NoProviderConfigured(settings) ==
  \/ SummarizationMethod(settings) \notin {"gemini", "openai_gpt"}
  \/ SummarizationMethod(settings) = "gemini" /\ (~settings.api_key \/ ~settings.genai)
  \/ SummarizationMethod(settings) = "openai_gpt" /\ (~settings.api_key \/ ~settings.openai)

\* C8 (as stated): with no provider configured, summarize_transcript returns
\* the non-empty extractive summary of the first 5 sentences for a transcript
\* of at least 50 characters and the "too short" text for a shorter one.
\* The characters are counted the way most favourable to the claim, as the
\* code counts them: without the surrounding whitespace.
C8_NoProviderExtractive ==
  (sm_result # <<>> /\ NoProviderConfigured(sm_settings[1])) =>
    IF Len(Strip(sm_transcript[1])) >= 50
    THEN /\ sm_result[1].text = Extractive(sm_transcript[1], 5)
         /\ sm_result[1].text # <<>>
    ELSE sm_result[1].text = TooShortMsg

\* the transcript method is the caption lookup of transcribe_with_youtube
UsesYoutubeTranscripts(settings) == settings.transcription \notin {"openai_whisper", "skip"}

\* neither track list has an English key
NoEnglishTrack(tr) ==
  \A l \in {"en", "en-US", "en-GB"} :
    l \notin DOMAIN tr.subtitles /\ l \notin DOMAIN tr.automatic_captions

\* C9: whenever the caption lookup of a video delivers neither a manual nor
\* an automatic track in en, en-US or en-GB (no captions at all included),
\* transcribe_video returns "SKIP_NO_ENGLISH"; and for a video whose
\* transcription returned that sentinel the pipeline calls neither
\* summarize_transcript nor extract_key_topics.
C9_SkipNonEnglish ==
  /\ (/\ lastTranscribe # <<>>
      /\ UsesYoutubeTranscripts(yt_settings)
      /\ lastTranscribe[1].tr.info = "ok"
      /\ NoEnglishTrack(lastTranscribe[1].tr))
       => lastTranscribe[1].result = SkipNoEnglish
  /\ \A i \in DOMAIN yt_log :
       (yt_log[i].fn = "transcribe_video" /\ yt_log[i].result = SkipNoEnglish)
         => \A j \in DOMAIN yt_log :
              yt_log[j].video = yt_log[i].video
                => yt_log[j].fn \notin {"summarize_transcript", "extract_key_topics"}

\* a channel returned after one video was summarized and the last one, which
\* has captions but none in English, was skipped
C9_Witness ==
  /\ ytpc = "returned"
  /\ lastTranscribe # <<>>
  /\ NoEnglishTrack(lastTranscribe[1].tr)
  /\ DOMAIN lastTranscribe[1].tr.subtitles # {}
  /\ lastTranscribe[1].result = SkipNoEnglish
  /\ \E j \in DOMAIN yt_log : yt_log[j].fn = "summarize_transcript"
  /\ \A k \in DOMAIN podcasts : podcasts[k].video_id # lastTranscribe[1].video

\* the publish date of an entry, None when it has none that parses
EntryDay(e) ==
  IF e.upload_date \notin {None, BadDate} THEN e.upload_date
  ELSE IF e.upload_date = None /\ e.timestamp \notin {None, 0} THEN e.timestamp
  ELSE None

\* an entry with an id, metadata and a title whose publish date is in the window
InWindowEntry(e) ==
  /\ e.dict /\ e.id # None /\ e.info = "ok" /\ e.title # <<>>
  /\ EntryDay(e) # None
  /\ start_date <= EntryDay(e) /\ EntryDay(e) <= end_date

IdsOf(videos) == [k \in 1..Len(videos) |-> videos[k].id]

InWindowPositions(entries) ==
  {p \in 1..Len(entries) : p <= 20 /\ InWindowEntry(entries[p])}

\* the listing with in-window entries at 2, 9 and 15, scanned with K = 2
ExampleDiscovery == Discover(EntriesOf({2, 9, 15}, ListingLen), 2, MaxVideosToCheck)

\* C10: discovery requests the metadata of at most 20 entries, selects at most
\* 3 videos, the selected videos are the first 3 in-window entries among the
\* first 20 in listing order, and once the 3rd is found no later entry is
\* examined; with in-window entries at positions 2, 9 and 15 and K = 2 the
\* loop selects 2 and 9 and never examines position 15.
C10_DiscoveryStopsAtK ==
  /\ discovery # <<>> =>
       LET entries == ListedEntries(listing)
           found == discovery[1]
           ids == IdsOf(found.matching_videos)
           inwin == InWindowPositions(entries)
       IN  /\ Len(found.resolved) <= 20
           /\ Len(ids) <= 3
           /\ \A k \in 1..(Len(ids) - 1) : ids[k] < ids[k + 1]
           /\ Range(ids) = {p \in inwin : Cardinality({q \in inwin : q < p}) < 3}
           /\ \A p \in Range(found.examined) \cup Range(found.resolved) :
                p <= 20 /\ (Len(ids) = 3 => p <= ids[3])
  /\ IdsOf(ExampleDiscovery.matching_videos) = <<2, 9>>
  /\ 15 \notin Range(ExampleDiscovery.examined)

\* three videos were selected although a fourth in-window entry is listed
\* among the first 20, and another one after them
C10_Witness ==
  /\ discovery # <<>>
  /\ Len(discovery[1].matching_videos) = 3
  /\ \E p \in InWindowPositions(ListedEntries(listing)) :
       p > discovery[1].matching_videos[3].id
  /\ \E p \in 21..Len(ListedEntries(listing)) : InWindowEntry(ListedEntries(listing)[p])

\* the ranking key of a reel, a missing metric counted as 0
PerformanceOf(p) == IF p.reel_performance = None THEN 0 ELSE p.reel_performance

\* the collected items of one kind
ReelsOf(items) == {items[k] : k \in {j \in 1..Len(items) : items[j].is_reel}}
PostsOf(items) == {items[k] : k \in {j \in 1..Len(items) : ~items[j].is_reel}}

\* C11: the returned reels are all is_reel and non-increasing in
\* reel_performance (None as 0), the returned posts are all non-reels and
\* non-increasing in engagement, each list has at most 10 items, holds only
\* collected items, holds all of its kind when there are at most 10 and
\* otherwise 10 items that no left-out item of the kind outranks.
C11_RankedTopTen ==
  results # <<>> =>
    LET reels == results[1].reels
        posts == results[1].posts
    IN  /\ \A k \in 1..Len(reels) : reels[k].is_reel
        /\ \A k \in 1..Len(posts) : ~posts[k].is_reel
        /\ \A k \in 1..(Len(reels) - 1) : PerformanceOf(reels[k]) >= PerformanceOf(reels[k + 1])
        /\ \A k \in 1..(Len(posts) - 1) : posts[k].engagement >= posts[k + 1].engagement
        /\ Len(reels) <= 10 /\ Len(posts) <= 10
        /\ Range(reels) \subseteq ReelsOf(all_posts)
        /\ Range(posts) \subseteq PostsOf(all_posts)
        /\ Cardinality(Range(reels)) = Len(reels)
        /\ Cardinality(Range(posts)) = Len(posts)
        /\ Len(reels) = Min2(10, Cardinality(ReelsOf(all_posts)))
        /\ Len(posts) = Min2(10, Cardinality(PostsOf(all_posts)))
        /\ \A x \in ReelsOf(all_posts) \ Range(reels) :
             \A k \in 1..Len(reels) : PerformanceOf(reels[k]) >= PerformanceOf(x)
        /\ \A x \in PostsOf(all_posts) \ Range(posts) :
             \A k \in 1..Len(posts) : posts[k].engagement >= x.engagement

\* more than 10 reels and more than 10 posts were collected, with different keys
C11_Witness ==
  /\ results # <<>>
  /\ Cardinality(ReelsOf(all_posts)) > 10
  /\ Cardinality(PostsOf(all_posts)) > 10
  /\ PerformanceOf(results[1].reels[1]) > PerformanceOf(results[1].reels[10])
  /\ results[1].posts[1].engagement > results[1].posts[10].engagement
  /\ \E k \in 1..10 : results[1].reels[k].views = None

\* the place of a collected item in discovery order
PlaceOf(x) == CHOOSE k \in 1..Len(all_posts) : all_posts[k] = x

\* C12: in both returned lists items of equal key stand in discovery order, and
\* a collected item left out at the cut was discovered after every returned
\* item of the same kind and key.
C12_TiesInDiscoveryOrder ==
  results # <<>> =>
    LET reels == results[1].reels
        posts == results[1].posts
    IN  /\ \A k \in 1..(Len(reels) - 1) :
             PerformanceOf(reels[k]) = PerformanceOf(reels[k + 1])
               => PlaceOf(reels[k]) < PlaceOf(reels[k + 1])
        /\ \A k \in 1..(Len(posts) - 1) :
             posts[k].engagement = posts[k + 1].engagement
               => PlaceOf(posts[k]) < PlaceOf(posts[k + 1])
        /\ \A x \in ReelsOf(all_posts) \ Range(reels) :
             \A k \in 1..Len(reels) :
               PerformanceOf(reels[k]) = PerformanceOf(x) => PlaceOf(reels[k]) < PlaceOf(x)
        /\ \A x \in PostsOf(all_posts) \ Range(posts) :
             \A k \in 1..Len(posts) :
               posts[k].engagement = x.engagement => PlaceOf(posts[k]) < PlaceOf(x)

\* both lists were cut inside a group of equal key, and items of two accounts
\* tie inside the returned reels
C12_Witness ==
  /\ results # <<>>
  /\ \E x \in ReelsOf(all_posts) \ Range(results[1].reels) :
       PerformanceOf(x) = PerformanceOf(results[1].reels[10])
  /\ \E x \in PostsOf(all_posts) \ Range(results[1].posts) :
       x.engagement = results[1].posts[10].engagement
  /\ \E k \in 1..(Len(results[1].reels) - 1) :
       /\ PerformanceOf(results[1].reels[k]) = PerformanceOf(results[1].reels[k + 1])
       /\ results[1].reels[k].username # results[1].reels[k + 1].username

\* the calls of fn that the log holds for a video
CallsOf(fn, v) == {i \in DOMAIN yt_log : yt_log[i].fn = fn /\ yt_log[i].video = v}

\* a transcribe_video result that is a transcript: not the skip sentinel, not
\* empty, longer than 50 characters and without an error text
TranscriptAcquired(t) ==
  t # SkipNoEnglish /\ t # <<>> /\ Len(Strip(t)) > 50 /\ ~Contains(t, StrError)

\* C13: for every discovered video transcribe_video is called at most once,
\* summarize_transcript at most once and only after a transcribe_video call of
\* that video returned a transcript; the calls for one video are not
\* interleaved with those of another; every video has at most one entry in
\* podcasts, and an entry, once appended, is never changed or removed, nor
\* does the loop step back to an earlier video.
C13_Lifecycle ==
  /\ [](\A v \in MatchPositions :
          /\ Cardinality(CallsOf("transcribe_video", v)) <= 1
          /\ Cardinality(CallsOf("summarize_transcript", v)) <= 1
          /\ Cardinality(CallsOf("extract_key_topics", v)) <= 1
          /\ \A j \in CallsOf("summarize_transcript", v) :
               \E i \in CallsOf("transcribe_video", v) :
                 i < j /\ TranscriptAcquired(yt_log[i].result)
          /\ \A j \in CallsOf("extract_key_topics", v) :
               \E i \in CallsOf("summarize_transcript", v) : i < j
          /\ Cardinality({k \in DOMAIN podcasts : podcasts[k].video_id = v}) <= 1
          /\ \A k \in DOMAIN podcasts :
               podcasts[k].video_id = v =>
                 /\ CallsOf("transcribe_video", v) # {}
                 /\ \A i \in CallsOf("transcribe_video", v) :
                      yt_log[i].result # SkipNoEnglish
                 /\ (podcasts[k].summary = SummaryNoTranscriptMsg
                       <=> CallsOf("summarize_transcript", v) = {}))
  /\ [](\A i, j, k \in DOMAIN yt_log :
          (i < j /\ j < k /\ yt_log[i].video = yt_log[k].video /\ yt_log[i].video # None)
            => yt_log[j].video \in {None, yt_log[i].video})
  /\ [][ /\ vid_k' >= vid_k
         /\ Len(podcasts') >= Len(podcasts)
         /\ SubSeq(podcasts', 1, Len(podcasts)) = podcasts
         /\ Len(yt_log') >= Len(yt_log)
         /\ SubSeq(yt_log', 1, Len(yt_log)) = yt_log ]_vars

\* a channel returned with one video skipped, one without transcript and one
\* summarized
C13_Witness ==
  /\ ytpc = "returned"
  /\ vid_k = 3
  /\ \E i \in DOMAIN yt_log :
       yt_log[i].fn = "transcribe_video" /\ yt_log[i].result = SkipNoEnglish
  /\ \E k \in DOMAIN podcasts : podcasts[k].summary = SummaryNoTranscriptMsg
  /\ \E k \in DOMAIN podcasts :
       /\ podcasts[k].key_topics # <<>>
       /\ CallsOf("summarize_transcript", podcasts[k].video_id) # {}

\* the index of an account in the configured list
AccountIndex(a) == CHOOSE k \in 1..Len(competitor_accounts) : competitor_accounts[k] = a

\* C14: the k-th fetch is that of the k-th configured account, respectively
\* channel, one per step of the loop; all_posts holds the items grouped by
\* account in configured order and, within an account, in the order the
\* upstream iterator yielded them, and the returned "all" is that list.
C14_ConfiguredOrder ==
  /\ [][ acct_i' = acct_i + 1 =>
           /\ \/ /\ successful_accounts' = Append(successful_accounts, competitor_accounts[acct_i'])
                 /\ failed_accounts' = failed_accounts
              \/ /\ successful_accounts' = successful_accounts
                 /\ Len(failed_accounts') = Len(failed_accounts) + 1
                 /\ failed_accounts'[Len(failed_accounts')].account = competitor_accounts[acct_i']
           /\ \A k \in (Len(all_posts) + 1)..Len(all_posts') :
                all_posts'[k].username = competitor_accounts[acct_i'] ]_vars
  /\ [][ ch_i' = ch_i + 1 =>
           fetched_channels' = Append(fetched_channels, competitor_channels[ch_i']) ]_vars
  /\ [](fetched_channels = SubSeq(competitor_channels, 1, ch_i))
  /\ [](\A k \in 1..(Len(all_posts) - 1) :
          \/ AccountIndex(all_posts[k].username) < AccountIndex(all_posts[k + 1].username)
          \/ /\ all_posts[k].username = all_posts[k + 1].username
             /\ all_posts[k].shortcode < all_posts[k + 1].shortcode)
  /\ [](results # <<>> => results[1].all = all_posts)

\* a returned run in which two accounts contributed items, the first of them
\* more than one
C14_Witness ==
  /\ igpc = "ranked"
  /\ Len(successful_accounts) >= 2
  /\ \E j, k \in 1..Len(all_posts) :
       /\ j + 1 < k
       /\ all_posts[j].username = successful_accounts[1]
       /\ all_posts[j + 1].username = successful_accounts[1]
       /\ all_posts[k].username = successful_accounts[2]

\* C15: an emitted item has reel_performance None when it is not a reel; when
\* it is a reel, reel_performance is its views if views is not None (0
\* included) and its likes otherwise; its engagement is likes + comments, the
\* likes and comments of the post, whatever its type.
C15_PerformanceMetric ==
  citem # <<>> =>
    /\ citem[1].likes = cpost[1].likes
    /\ citem[1].comments = cpost[1].comments
    /\ citem[1].engagement = citem[1].likes + citem[1].comments
    /\ ~citem[1].is_reel => citem[1].reel_performance = None
    /\ (citem[1].is_reel /\ citem[1].views # None)
         => citem[1].reel_performance = citem[1].views
    /\ (citem[1].is_reel /\ citem[1].views = None)
         => citem[1].reel_performance = citem[1].likes

\* a reel with 0 views and 3 likes was emitted
C15_Witness ==
  /\ citem # <<>>
  /\ citem[1].is_reel
  /\ citem[1].views = 0
  /\ citem[1].likes = 3
  /\ citem[1].reel_performance = 0

\* the text of a cue line without its markup
PlainLine(line) ==
  Concat([k \in 1..Len(line) |-> IF line[k].tag THEN <<>> ELSE line[k].s])

\* the non-empty texts of a sequence of texts
NonEmptyTexts(ts) == SelectSeq(ts, LAMBDA x : x # <<>>)

\* the text of a cue: its non-empty plain lines joined by single spaces
CueTextOf(cue) == Join(NonEmptyTexts([j \in 1..Len(cue) |-> PlainLine(cue[j])]), <<" ">>)

\* C16: parse_vtt_subtitle returns, for a subtitle file written from cues,
\* the texts of the cues in cue order joined by single spaces, each cue's
\* text being its lines without markup joined by single spaces; the header
\* with its metadata, comment blocks, cue identifiers and timestamp lines
\* contribute nothing.
C16_ParseVtt ==
  vtt_text # <<>> =>
    vtt_text[1] =
      Join(NonEmptyTexts([k \in 1..Len(vtt_doc[1].cues) |-> CueTextOf(vtt_doc[1].cues[k])]),
           <<" ">>)

\* a file with header metadata, comment blocks, cue identifiers and cue
\* settings whose three cues are a two-line, a tagged and a plain one
C16_Witness ==
  /\ vtt_text # <<>>
  /\ vtt_doc[1].cues = <<CueTwoLines, CueTagged, CuePlain>>
  /\ vtt_doc[1].ids /\ vtt_doc[1].notes /\ vtt_doc[1].meta /\ vtt_doc[1].settings
  /\ vtt_text[1] = SentenceC \o <<" ">> \o SentenceB \o <<" ">> \o SentenceA
                     \o <<" ">> \o SentenceA

\* the failure of the last transcript acquisition, <<>> when it did not fail
\* in the info lookup or the download
AcquisitionFailure ==
  IF lastTranscribe = <<>> \/ ~UsesYoutubeTranscripts(yt_settings) \/ ~yt_settings.yt_dlp
  THEN <<>>
  ELSE LET tr == lastTranscribe[1].tr
           track == SelectTrack(tr.subtitles, tr.automatic_captions)
       IN  IF tr.info = "raise" THEN <<tr.err>>
           ELSE IF tr.info = "none" THEN <<NoneTypeGetMsg>>
           ELSE IF NoEnglish(track[1], track[2]) \/ SubtitleUrl(track[2]) = <<>> THEN <<>>
           ELSE IF tr.download.kind # "ok" THEN <<DownloadError(tr.download)>>
           ELSE <<>>

\* C17 (as stated): a failure of the transcript acquisition that looks like a
\* rate-limit response is retried, no call makes more than 3 attempts, and
\* every other failure is returned after the one attempt.
C17_RateLimitRetried ==
  AcquisitionFailure # <<>> =>
    /\ lastTranscribe[1].attempts <= 3
    /\ IsTranscriptRateLimit(AcquisitionFailure[1]) => lastTranscribe[1].attempts > 1
    /\ ~IsTranscriptRateLimit(AcquisitionFailure[1]) => lastTranscribe[1].attempts = 1

\* what the code does: every failure, rate limit or not, ends the call after
\* its one attempt
C17_SingleAttempt ==
  AcquisitionFailure # <<>> =>
    /\ lastTranscribe[1].attempts = 1
    /\ lastTranscribe[1].result =
         (IF IsTranscriptRateLimit(AcquisitionFailure[1]) THEN TranscriptRateLimitedMsg
          ELSE TranscriptErrorPrefix \o AcquisitionFailure[1])

\* a subtitle download answered with HTTP 429
C17_RateLimitedDownload ==
  /\ AcquisitionFailure = <<Http429Msg>>
  /\ lastTranscribe[1].result = TranscriptRateLimitedMsg

\* the call reaches the provider loop of summarize_with_gemini
CallsGemini ==
  /\ sm_result # <<>>
  /\ ~TranscriptTooShort(sm_transcript[1])
  /\ SummarizationMethod(sm_settings[1]) = "gemini"
  /\ sm_settings[1].api_key /\ sm_settings[1].genai

\* the provider call of attempt k (counted from 1) raises a rate-limit error
RateLimitedAt(k) ==
  /\ sm_outcomes[1][k].kind = "raise"
  /\ IsSummaryRateLimit(sm_outcomes[1][k].text)

BeforeFirstOld(body) ==
  IF \E k \in DOMAIN body : body[k] = "old"
  THEN MinOf({k \in DOMAIN body : body[k] = "old"}) - 1
  ELSE Len(body)

\* C19: whatever the upstream sequence, fetch_posts_from_account collects
\* items from at most 50 posts and pulls at most 51 posts from the iterator;
\* when the first 51 posts hold no old post the scan ends on the 51st without
\* an exception, however the iterator would have gone on.
C19_ScanLimit ==
  igpc = "scanned" =>
    /\ Len(lastScan.collected) <= 50
    /\ lastScan.examined <= 51
    /\ BeforeFirstOld(lastFeed.body) >= 51 =>
         /\ lastScan.examined = 51
         /\ lastScan.raised = "none"
         /\ Len(lastScan.posts) = 51 - 1 - Cardinality({k \in 1..51 : lastFeed.body[k] = "new"})

\* 55 in-window posts and an iterator that would raise after them: the scan
\* ends on the 51st post with the first 50 collected
C19_Witness ==
  /\ igpc = "scanned"
  /\ lastFeed.body = Repeat("in", 55)
  /\ lastFeed.term = "Connection"
  /\ lastScan.examined = 51
  /\ Len(lastScan.posts) = 50
  /\ lastScan.posts[50].shortcode = 50
  /\ lastScan.raised = "none"

\* C20: after any number of accounts of analyze_competitors the waits so far
\* are a 2-second wait before every account processed except the first and a
\* 1-second wait after every account processed except the last configured
\* one, in that order and nothing else, whatever the fetches did; after all
\* n accounts that is n - 1 waits of each kind.
C20_Delays ==
  LET n == Len(competitor_accounts)
      before == IF acct_i = 0 THEN 0 ELSE acct_i - 1
      after == IF acct_i < n THEN acct_i ELSE n - 1
  IN  /\ Len(sleeps) = before + after
      /\ \A p \in DOMAIN sleeps : sleeps[p] = (IF p % 2 = 1 THEN 1 ELSE 2)
      /\ igpc = "ranked" =>
           /\ Cardinality({p \in DOMAIN sleeps : sleeps[p] = 2}) = n - 1
           /\ Cardinality({p \in DOMAIN sleeps : sleeps[p] = 1}) = n - 1

\* a finished run in which the first fetch raised and the last returned posts
C20_Witness ==
  /\ igpc = "ranked"
  /\ scanLog[1] = "Connection"
  /\ scanLog[Len(scanLog)] = "none"
  /\ all_posts # <<>>
  /\ Len(sleeps) = 2 * (Len(competitor_accounts) - 1)
  /\ sleeps[1] = 1
  /\ sleeps[Len(sleeps)] = 2

\* the position of the record without a date, 0 when the sequence has none
BadAt(body) ==
  IF \E k \in DOMAIN body : body[k] = "bad"
  THEN MinOf({k \in DOMAIN body : body[k] = "bad"})
  ELSE 0

\* C21 (as stated): a record without a publish date makes the account scan
\* skip that record only: the in-window posts before it are returned and the
\* records after it are examined.
C21_MalformedRecordSkipped ==
  (igpc = "scanned" /\ BadAt(lastFeed.body) > 0) =>
    LET k == BadAt(lastFeed.body)
    IN  /\ \A j \in 1..(k - 1) : \E p \in DOMAIN lastScan.posts : lastScan.posts[p].shortcode = j
        /\ lastScan.examined = Len(lastFeed.body)

\* what the code does: the record without a date ends the scan and empties
\* its result
C21_MalformedRecordAborts ==
  (igpc = "scanned" /\ BadAt(lastFeed.body) > 0) =>
    /\ lastScan.posts = <<>>
    /\ lastScan.examined = BadAt(lastFeed.body)
    /\ Len(lastScan.collected) = BadAt(lastFeed.body) - 1
    /\ lastScan.raised = "Other"

\* two in-window posts, a record without a date, two more in-window posts
C21_TwoCollectedThenMalformed ==
  /\ igpc = "scanned"
  /\ lastFeed.body = <<"in", "in", "bad", "in", "in">>
  /\ lastFeed.term = "end"
  /\ Len(lastScan.collected) = 2
  /\ lastScan.posts = <<>>

C23_VideoIsReel ==
  citem # <<>> =>
    /\ citem[1].is_video => citem[1].is_reel
    /\ (cpost[1].is_video /\ ~Raises(cpost[1], "is_video")) => citem[1].is_reel

\* a video without type tag, views, reel attribute or reel url whose duration
\* raises when read
C23_Witness ==
  /\ citem # <<>>
  /\ Raises(cpost[1], "video_duration")
  /\ cpost[1].is_video
  /\ cpost[1].typename = ""
  /\ cpost[1].video_view_count = None
  /\ cpost[1].is_reel_attr = "absent"
  /\ ~UrlForcesReel(cpost[1])
  /\ citem[1].is_video
  /\ citem[1].is_reel

\* C23, the consequence for the stats: the video count of a response is 0
C23_NoVideoCount == stats # <<>> => stats[1].video_count = 0

\* the largest engagement among the items, 0 without items
MaxEngagement(items) ==
  IF items = <<>> THEN 0
  ELSE CHOOSE e \in {items[k].engagement : k \in 1..Len(items)} :
         \A k \in 1..Len(items) : items[k].engagement <= e

\* C24 (as stated): the stats are a reduction over all collected items:
\* total_posts is their number, the carousel, photo, reel and video counts are
\* the numbers of collected items of each type and sum to total_posts,
\* total_views is the sum of the views of all reels and top_engagement the
\* largest engagement of all items.
C24_StatsOverAllItems ==
  stats # <<>> =>
    LET all == results[1].all
        st == stats[1]
    IN  /\ st.total_posts = Len(all)
        /\ st.reel_count = CountOf(all, ItemIsReel)
        /\ st.carousel_count = CountOf(all, LAMBDA p : ~p.is_reel /\ p.is_carousel)
        /\ st.photo_count = CountOf(all, LAMBDA p : ~p.is_reel /\ ~p.is_carousel /\ ~p.is_video)
        /\ st.video_count = CountOf(all, LAMBDA p : ~p.is_reel /\ ~p.is_carousel /\ p.is_video)
        /\ st.carousel_count + st.photo_count + st.reel_count + st.video_count = st.total_posts
        /\ st.total_views =
             SumOf([k \in 1..Len(all) |-> IF all[k].is_reel THEN TruthyViews(all[k]) ELSE 0])
        /\ st.top_engagement = MaxEngagement(all)

\* what the code does: total_posts and top_engagement are taken over all
\* collected items, the counts and total_views over the two ranked lists of
\* at most 10 items
C24_StatsOverRankedLists ==
  stats # <<>> =>
    LET res == results[1]
        st == stats[1]
    IN  /\ st.total_posts = Len(res.all)
        /\ st.top_engagement = MaxEngagement(res.all)
        /\ st.reel_count = Len(res.reels)
        /\ st.reel_count <= 10
        /\ st.carousel_count + st.photo_count + st.video_count = Len(res.posts)
        /\ st.carousel_count + st.photo_count + st.video_count <= 10
        /\ st.total_views = SumOf([k \in 1..Len(res.reels) |-> TruthyViews(res.reels[k])])

\* a run that collected 12 items, all reels: the stats count 10 of them
C24_TwelveReels ==
  /\ stats # <<>>
  /\ Len(results[1].all) = 12
  /\ \A k \in 1..12 : results[1].all[k].is_reel
  /\ stats[1].total_posts = 12
  /\ stats[1].reel_count = 10

\* C25: a carousel whose slide count can be read gets as slide_count the
\* count field when it is there and not 0, else the number of enumerated
\* slides when the enumeration succeeds and is not empty, else 1; its total
\* is the likes of the post.
C25_SlideCount ==
  (citem # <<>> /\ cpost[1].typename = "GraphSidecar" /\ ~Raises(cpost[1], "mediacount")) =>
    LET post == cpost[1]
        expected == IF post.mediacount \notin {NoAttr, 0} THEN post.mediacount
                    ELSE IF post.sidecar \notin {None, 0} THEN post.sidecar
                    ELSE 1
    IN  /\ citem[1].is_carousel
        /\ citem[1].carousel_metrics =
             << [is_carousel |-> TRUE, slide_count |-> expected, total_likes |-> post.likes] >>

\* a carousel without count field whose slide enumeration fails
C25_Witness ==
  /\ citem # <<>>
  /\ cpost[1].typename = "GraphSidecar"
  /\ cpost[1].mediacount = NoAttr
  /\ cpost[1].sidecar = None
  /\ cpost[1].likes = 3
  /\ citem[1].is_carousel
  /\ citem[1].carousel_metrics[1].slide_count = 1
  /\ citem[1].carousel_metrics[1].total_likes = 3
  /\ "raises" \notin DOMAIN cpost[1]

\* how often the words of the transcript that begin with an uppercase letter
\* yield the token t when their punctuation is stripped
TokenFrequency(t) ==
  LET words == Words(tp_transcript[1])
  IN  Cardinality({k \in 1..Len(words) :
                     IsUpper(words[k][1]) /\ StripChars(words[k], Range(TopicPunctuation)) = t})

\* C26 (as stated): extract_key_topics returns at most 5 distinct tokens in
\* order of descending frequency, each beginning with an uppercase letter and
\* longer than 3 characters after its punctuation is stripped, and the empty
\* list for a transcript shorter than 50 characters.
C26_KeyTopics ==
  tp_topics # <<>> =>
    LET topics == tp_topics[1]
    IN  /\ Len(topics) <= 5
        /\ \A j, k \in 1..Len(topics) : j # k => topics[j] # topics[k]
        /\ \A j, k \in 1..Len(topics) :
             j < k => TokenFrequency(topics[j]) >= TokenFrequency(topics[k])
        /\ \A k \in 1..Len(topics) : IsUpper(topics[k][1]) /\ Len(topics[k]) > 3
        /\ Len(tp_transcript[1]) < 50 => topics = <<>>

\* what the code does: the length test is made on the word with its
\* punctuation, so a returned token has at least 1 character and stems from
\* a word longer than 3
C26_LengthBeforeStrip ==
  tp_topics # <<>> =>
    LET topics == tp_topics[1]
        words == Words(tp_transcript[1])
    IN  /\ Len(topics) <= 5
        /\ \A j, k \in 1..Len(topics) : j # k => topics[j] # topics[k]
        /\ \A k \in 1..Len(topics) :
             \E j \in 1..Len(words) :
               /\ IsUpper(words[j][1]) /\ Len(words[j]) > 3
               /\ StripChars(words[j], Range(TopicPunctuation)) = topics[k]
        /\ Len(Strip(tp_transcript[1])) < 50 => topics = <<>>

\* the word "Yes." in a transcript of more than 50 characters is returned as
\* the token "Yes"
C26_ThreeLetterToken ==
  /\ tp_topics # <<>>
  /\ Len(tp_transcript[1]) >= 50
  /\ \E k \in 1..Len(tp_topics[1]) : tp_topics[1][k] = <<"Y", "e", "s">>

C28_AccountBookkeeping ==
  igpc \in {"loop", "ranked"} =>
    LET done == {competitor_accounts[k] : k \in 1..acct_i}
        succ == {successful_accounts[k] : k \in 1..Len(successful_accounts)}
        fail == {failed_accounts[k].account : k \in 1..Len(failed_accounts)}
    IN  /\ succ \cup fail = done
        /\ succ \cap fail = {}
        /\ Len(successful_accounts) + Len(failed_accounts) = acct_i
        /\ \A a \in done : a \in succ <=> \E k \in 1..Len(all_posts) : all_posts[k].username = a
        /\ \A k \in 1..Len(failed_accounts) : failed_accounts[k].reason = "no posts found"
        /\ acct_i > 0 => (competitor_accounts[acct_i] \in succ <=> lastScan.posts # <<>>)

\* a finished run whose first account's fetch raised and whose last account
\* was fetched without error but has no post in the window
C28_Witness ==
  /\ igpc = "ranked"
  /\ scanLog[1] = "LoginRequired"
  /\ scanLog[Len(scanLog)] = "none"
  /\ lastFeed.body # <<>>
  /\ lastScan.posts = <<>>
  /\ failed_accounts[1] = [account |-> competitor_accounts[1], reason |-> "no posts found"]
  /\ failed_accounts[Len(failed_accounts)] =
       [account |-> competitor_accounts[Len(competitor_accounts)], reason |-> "no posts found"]

\* the acquisition of the transcript of the video processed last ended in an
\* exception, in the caption lookup, the subtitle download, the audio
\* download or the Whisper call
TranscriptionRaised ==
  /\ lastTranscribe # <<>>
  /\ \/ AcquisitionFailure # <<>>
     \/ /\ yt_settings.transcription = "openai_whisper"
        /\ yt_settings.whisper_key /\ yt_settings.openai
        /\ lastTranscribe[1].tr.whisper.kind = "raise"

\* the entries of podcasts for a video, and what transcribe_video returned for it
EntriesOfVideo(v) == {k \in DOMAIN podcasts : podcasts[k].video_id = v}
TranscribeResults(v) == {yt_log[i].result : i \in CallsOf("transcribe_video", v)}

\* every matching video processed so far has one entry, none if its
\* transcript result is the skip sentinel; the others have none yet
OneEntryPerVideo ==
  discovery # <<>> =>
    \A j \in 1..Len(discovery[1].matching_videos) :
      LET v == discovery[1].matching_videos[j].id
      IN  /\ j <= vid_k => CallsOf("transcribe_video", v) # {}
          /\ Cardinality(EntriesOfVideo(v)) =
               (IF j <= vid_k /\ SkipNoEnglish \notin TranscribeResults(v) THEN 1 ELSE 0)

\* an entry without a produced summary and without topics
SentinelEntry(p) ==
  /\ p.summary \in {SummaryNoTranscriptMsg, SummaryApiErrorMsg}
  /\ p.key_topics = <<>>

\* C29 (as stated): each matching video yields exactly one entry of the
\* channel's result, except a video whose transcript result is the skip
\* sentinel, which yields none; a video whose transcription ended in an
\* exception, or whose summarization returned an error text, has its entry
\* with a "Summary not available" summary and no key topics.
C29_EntryPerVideo ==
  /\ OneEntryPerVideo
  /\ TranscriptionRaised =>
       \A k \in EntriesOfVideo(lastTranscribe[1].video) : SentinelEntry(podcasts[k])
  /\ \A k \in DOMAIN podcasts :
       (\E i \in CallsOf("summarize_transcript", podcasts[k].video_id) :
          Contains(yt_log[i].result, StrError))
         => SentinelEntry(podcasts[k])

\* what the code does: one entry per video that was not skipped; an exception
\* of the caption lookup or the subtitle download gives an entry without
\* summary and topics, and an exception of the Whisper path gives an entry
\* whose transcript is "Transcription error: " and the message, which is
\* summarized like any transcript when it is long enough and has no "Error"
C29_EntryPerVideoKept ==
  /\ OneEntryPerVideo
  /\ TranscriptionRaised =>
       \A k \in EntriesOfVideo(lastTranscribe[1].video) :
         /\ podcasts[k].transcript = lastTranscribe[1].result
         /\ AcquisitionFailure # <<>> => SentinelEntry(podcasts[k])
         /\ ~Summarizable(lastTranscribe[1].result) => SentinelEntry(podcasts[k])
         /\ podcasts[k].key_topics # <<>> =>
              /\ yt_settings.transcription = "openai_whisper"
              /\ Summarizable(lastTranscribe[1].result)
              /\ StartsWith(lastTranscribe[1].result, TranscriptionErrorPrefix)
  /\ \A k \in DOMAIN podcasts :
       (\E i \in CallsOf("summarize_transcript", podcasts[k].video_id) :
          Contains(yt_log[i].result, StrError))
         => SentinelEntry(podcasts[k])

\* a returned channel whose last video could not be downloaded for Whisper:
\* its entry holds the error message as transcript, a summary of it and topics
C29_ErrorTextSummarized ==
  /\ ytpc = "returned"
  /\ vid_k = 3
  /\ Len(podcasts) = 3
  /\ TranscriptionRaised
  /\ lastTranscribe[1].tr.whisper.text = ErrDownload
  /\ podcasts[3].video_id = lastTranscribe[1].video
  /\ podcasts[3].transcript = TranscriptionErrorPrefix \o ErrDownload
  /\ podcasts[3].summary = Strip(ProviderText)
  /\ podcasts[3].key_topics # <<>>

\* what summarize_transcript returned for a video
SummarizeResults(v) == {yt_log[i].result : i \in CallsOf("summarize_transcript", v)}

\* C30: for every matching video processed so far, summarize_transcript was
\* called iff the text transcribe_video returned has more than 50 characters
\* after stripping and does not contain "Error"; an entry of a video it was
\* not called for, and an entry of a video for which it returned a text that
\* contains "Error" or is empty, has a "Summary not available" summary and no
\* key topics; an entry with key topics holds the returned summary.
C30_SummarizeGate ==
  discovery # <<>> =>
    \A j \in 1..vid_k :
      LET v == discovery[1].matching_videos[j].id
      IN  /\ \A r \in TranscribeResults(v) :
               SummarizeResults(v) # {} <=> (Len(Strip(r)) > 50 /\ ~Contains(r, StrError))
          /\ \A k \in EntriesOfVideo(v) :
               /\ SummarizeResults(v) = {} =>
                    /\ podcasts[k].summary = SummaryNoTranscriptMsg
                    /\ podcasts[k].key_topics = <<>>
               /\ \A t \in SummarizeResults(v) :
                    (t = <<>> \/ Contains(t, StrError)) =>
                      /\ podcasts[k].summary = SummaryApiErrorMsg
                      /\ podcasts[k].key_topics = <<>>
               /\ podcasts[k].key_topics # <<>> =>
                    /\ SummarizeResults(v) = {podcasts[k].summary}
                    /\ ~Contains(podcasts[k].summary, StrError)
                    /\ podcasts[k].key_topics = extract_key_topics(podcasts[k].transcript)

\* a returned channel whose first video has a transcript of exactly 50
\* characters and was not summarized, whose second video's summary is an
\* error text and whose third video has a summary and key topics
C30_Witness ==
  /\ ytpc = "returned"
  /\ Len(podcasts) = 3
  /\ Len(podcasts[1].transcript) = 50
  /\ Len(Strip(podcasts[1].transcript)) = 50
  /\ SummarizeResults(podcasts[1].video_id) = {}
  /\ podcasts[1].summary = SummaryNoTranscriptMsg
  /\ \E t \in SummarizeResults(podcasts[2].video_id) : Contains(t, StrError)
  /\ podcasts[2].summary = SummaryApiErrorMsg
  /\ podcasts[2].key_topics = <<>>
  /\ podcasts[3].key_topics # <<>>
  /\ SummarizeResults(podcasts[3].video_id) = {podcasts[3].summary}

====
